---- MODULE Spec2Model ----
(***************************************************************************)
(* A model of the Mudlet map decoder of mudlet-mapsnap.                    *)
(*                                                                         *)
(* Two decoders live in the repository and both are modelled:              *)
(*   impl = "parser"  the struct-based decoder  (parser.parse and the      *)
(*                    parser.read* methods)                                *)
(*   impl = "legacy"  the function-based decoder (ParseMap / parseHeader / *)
(*                    parseRooms / skipPNG / skipToRoomsHeuristic)         *)
(* Both run on top of the same BinaryReader (pkg/mapparser/reader.go).     *)
(*                                                                         *)
(* The input is a finite byte string `data`.  The decoder state that every *)
(* read threads through is the record r:                                   *)
(*   off    bytes taken from the stream (the cursor)                       *)
(*   pos    the BinaryReader.pos field                                     *)
(*   mem    the largest capacity passed to make() so far                   *)
(*   short  whether a read found fewer bytes than it needed                *)
(*   img    one entry per label image field decoded (see LogImage)         *)
(*                                                                         *)
(* Specifications:                                                         *)
(*   Spec         a whole parse by either decoder                          *)
(*   SpecReader   single calls of BinaryReader methods                     *)
(*   SpecRecord   parser.readRoom and parser.readAreaData on one record    *)
(*   SpecCLI      main's parse under a timeout (cmd/mapsnap/main.go)       *)
(*   SpecExamine  two walks of examineMudletLabel in one process           *)
(*   SpecQuery    MudletMap.GetLabelsForArea                               *)
(*   SpecValidate ValidateMap on a decoded document                        *)
(*   SpecEnv      a whole parse with MAPSNAP_SKIP_LABELS in the environment*)
(*   SpecScan     skipToRoomsHeuristic on its own                          *)
(*   SpecColor    envToColor and Renderer.getEnvColor                      *)
(*   SpecLoop     the labels loop of ParseMap, iteration by iteration      *)
(***************************************************************************)
EXTENDS Integers, Sequences, FiniteSets, TLC

VARIABLES
    impl,    \* which decoder runs: "parser" or "legacy"
    data,    \* the input stream (a sequence of bytes)
    r,       \* the reader and what the decoder did with it (see above)
    m,       \* the document under construction (p.m / m)
    pc,      \* the section the decoder is about to enter
    ret,     \* what ParseMap returned: [m |-> document or Nil, err |-> error or NoErr]
    cli,     \* the command-line program around a parse (main's position and
             \* variables, its context, output and exit status), Nil without one
    other,   \* the invocation that is not running while this one is, Nil
             \* when there is none
    labelDebugCount  \* the examiner's package-level counter

vars == <<impl, data, r, m, pc, ret, cli, other, labelDebugCount>>

\* what a decoder's step leaves alone outside its own invocation
process == <<cli, other, labelDebugCount>>

----------------------------------------------------------------------------
(* Bytes and fixed-width integers                                          *)

Nil == [nil |-> TRUE]

\* one decoder invocation in a process that does nothing else
SingleInvocation == cli = Nil /\ other = Nil /\ labelDebugCount = 0
NoErr == [sec |-> "", kind |-> ""]

Min(a, b) == IF a < b THEN a ELSE b

\* Then applied to x: the value x is named once and used by what follows
Bind(x, Then(_)) == Then(x)

\* b1..b3 only: the byte that carries the sign is left out
BE32_lowBytes(b) == b[2] * 65536 + b[3] * 256 + b[4]

\* b0..b3 big-endian, as a signed 32-bit integer (two's complement)
BE32(b) ==
    (IF b[1] >= 128 THEN b[1] - 256 ELSE b[1]) * 16777216
        + b[2] * 65536 + b[3] * 256 + b[4]

\* an unsigned 32-bit value is kept as its two 16-bit halves <<hi, lo>>
BEU32(b) == <<b[1] * 256 + b[2], b[3] * 256 + b[4]>>

BE16(b) == b[1] * 256 + b[2]

\* the n bytes of the stream after offset off
Bytes(off, n) == [i \in 1..n |-> data[off + i]]

Avail(rd) == Len(data) - rd.off

\* a loop that reads from the stream on every iteration ends, by a failed
\* read, before it has run more times than bytes remain: its count is cut there
LoopCount(rd, count) == Min(count, Avail(rd) + 1)

----------------------------------------------------------------------------
(* BinaryReader                                                            *)

NewBinaryReader == [off |-> 0, pos |-> 0, mem |-> 0, short |-> FALSE, img |-> <<>>]

Ok(v, rd) == [ok |-> TRUE, v |-> v, r |-> rd, e |-> ""]
Fail(v, rd, e) == [ok |-> FALSE, v |-> v, r |-> rd, e |-> e]

Advance(rd, n) == [rd EXCEPT !.off = @ + n, !.pos = @ + n]

\* io.ReadFull on the buffered reader: takes min(n, available) bytes from the
\* stream; EOF when nothing was available, unexpected EOF when too little was
ReadFull(rd, n) ==
    IF Avail(rd) >= n
    THEN Ok(Bytes(rd.off, n), [rd EXCEPT !.off = rd.off + n])
    ELSE Fail(<<>>, [rd EXCEPT !.off = Len(data), !.short = TRUE],
              IF Avail(rd) = 0 THEN "EOF" ELSE "unexpected EOF")

ReadByte(rd) ==
    IF Avail(rd) >= 1
    THEN Ok(data[rd.off + 1], Advance(rd, 1))
    ELSE Fail(0, [rd EXCEPT !.short = TRUE], "EOF")

ReadInt8(rd) ==
    Bind(ReadByte(rd), LAMBDA b :
        IF b.ok THEN Ok(IF b.v >= 128 THEN b.v - 256 ELSE b.v, b.r)
        ELSE Fail(0, b.r, b.e))

ReadInt32(rd) ==
    Bind(ReadFull(rd, 4), LAMBDA x :
        IF x.ok THEN Ok(BE32(x.v), [x.r EXCEPT !.pos = rd.pos + 4])
        ELSE Fail(0, x.r, x.e))

ReadUInt16(rd) ==
    Bind(ReadFull(rd, 2), LAMBDA x :
        IF x.ok THEN Ok(BE16(x.v), [x.r EXCEPT !.pos = rd.pos + 2])
        ELSE Fail(0, x.r, x.e))

ReadUInt32(rd) ==
    Bind(ReadFull(rd, 4), LAMBDA x :
        IF x.ok THEN Ok(BEU32(x.v), [x.r EXCEPT !.pos = rd.pos + 4])
        ELSE Fail(<<0, 0>>, x.r, x.e))

\* a float64 is kept as its 8-byte bit pattern (math.Float64frombits)
ZeroDouble == <<0, 0, 0, 0, 0, 0, 0, 0>>

ReadDouble(rd) ==
    Bind(ReadFull(rd, 8), LAMBDA x :
        IF x.ok THEN Ok(x.v, [x.r EXCEPT !.pos = rd.pos + 8])
        ELSE Fail(ZeroDouble, x.r, x.e))

ReadBool(rd) ==
    Bind(ReadByte(rd), LAMBDA b :
        IF b.ok THEN Ok(b.v # 0, b.r) ELSE Fail(FALSE, b.r, b.e))

\* bufio.Reader.Peek: the next n bytes, or the shorter rest and an error
Peek(rd, n) ==
    IF Avail(rd) >= n THEN Ok(Bytes(rd.off, n), rd)
    ELSE Fail(Bytes(rd.off, Avail(rd)), rd, "EOF")

Skip(rd, n) ==
    Bind(ReadFull(rd, n), LAMBDA x :
        IF x.ok THEN Ok(n, [x.r EXCEPT !.pos = rd.pos + n])
        ELSE Fail(0, x.r, x.e))

\* utf16.Decode: code units to code points; a surrogate pair combines, a lone
\* surrogate becomes U+FFFD
IsHighSur(u) == u >= 55296 /\ u < 56320
IsLowSur(u) == u >= 56320 /\ u < 57344

RECURSIVE utf16Decode(_)
utf16Decode(units) ==
    IF units = <<>> THEN <<>>
    ELSE LET u == Head(units)
         IN  IF IsHighSur(u) /\ Len(units) >= 2 /\ IsLowSur(units[2])
             THEN <<65536 + (u - 55296) * 1024 + (units[2] - 56320)>>
                      \o utf16Decode(Tail(Tail(units)))
             ELSE IF IsHighSur(u) \/ IsLowSur(u)
             THEN <<65533>> \o utf16Decode(Tail(units))
             ELSE <<u>> \o utf16Decode(Tail(units))

\* string([]rune): each code point as its UTF-8 bytes
utf8Rune(c) ==
    IF c < 128 THEN <<c>>
    ELSE IF c < 2048 THEN <<192 + (c \div 64), 128 + (c % 64)>>
    ELSE IF c < 65536
    THEN <<224 + (c \div 4096), 128 + ((c \div 64) % 64), 128 + (c % 64)>>
    ELSE <<240 + (c \div 262144), 128 + ((c \div 4096) % 64),
           128 + ((c \div 64) % 64), 128 + (c % 64)>>

RECURSIVE utf8String(_)
utf8String(runes) ==
    IF runes = <<>> THEN <<>> ELSE utf8Rune(Head(runes)) \o utf8String(Tail(runes))

Units(b) == [i \in 1..(Len(b) \div 2) |-> b[2 * i - 1] * 256 + b[2 * i]]

QStringMaxBytes == 10000000

\* n > QStringMaxBytes for the 4 prefix bytes b read as a uint32
PrefixTooLong(b) ==
    b[1] >= 128 \/ b[1] * 16777216 + b[2] * 65536 + b[3] * 256 + b[4] > QStringMaxBytes

PrefixIsNull_never(b) == b = <<>>

PrefixIsNull(b) == b = <<255, 255, 255, 255>>

PrefixInvalid_oddOnly(b) == b[4] % 2 # 0

PrefixInvalid(b) == b[4] % 2 # 0 \/ PrefixTooLong(b)

\* a Go string is the sequence of its (UTF-8) bytes
ReadQString(rd) ==
    Bind(ReadFull(rd, 4), LAMBDA p :
        IF ~p.ok THEN Fail(<<>>, p.r, "reading QString length")
        ELSE LET r1 == [p.r EXCEPT !.pos = rd.pos + 4]
                 n == BE32(p.v)
             IN  IF PrefixIsNull(p.v) THEN Ok(<<>>, r1)
                 ELSE IF PrefixInvalid(p.v)
                 THEN Fail(<<>>, r1, "invalid QString byte length")
                 ELSE Bind(ReadFull(r1, n), LAMBDA d :
                        IF ~d.ok THEN Fail(<<>>, d.r, "reading QString data")
                        ELSE Ok(utf8String(utf16Decode(Units(d.v))),
                                [d.r EXCEPT !.pos = r1.pos + n])))

----------------------------------------------------------------------------
(* Go maps                                                                 *)

EmptyMap == <<>>

MapPut(f, k, v) == [x \in (DOMAIN f) \cup {k} |-> IF x = k THEN v ELSE f[x]]

----------------------------------------------------------------------------
(* Typed field readers.  A type is a tuple whose head names it:            *)
(*   <<"int32">>, <<"uint32">>, <<"uint16">>, <<"int8">>, <<"byte">>,      *)
(*   <<"bool">>, <<"double">>, <<"qstring">>   BinaryReader primitives     *)
(*   <<"qcolor">>, <<"qfont">>, <<"vec3">>, <<"point2d">>, <<"areaexit">>  *)
(*   <<"list", T>>        count, make([]T, 0, count), count elements       *)
(*   <<"map", K, V>>      count, then count (K, V) pairs put into a map    *)
(*   <<"maphint", K, V>>  the same into make(map, count)                   *)
(*   <<"qpixmap">>        the label image field                            *)
(* A record layout is a sequence of [f |-> field, t |-> type]; field "_"   *)
(* is read and dropped.  Reading stops at the first failure, as every      *)
(* `if err != nil { return ... }` of the decoder does.                     *)

F(f, t) == [f |-> f, t |-> t]

ZeroColor == [Spec |-> 0, Alpha |-> 0, Red |-> 0, Green |-> 0, Blue |-> 0, Pad |-> 0]

readQColor_layout ==
    << F("Spec", <<"int8">>), F("Alpha", <<"uint16">>), F("Red", <<"uint16">>),
       F("Green", <<"uint16">>), F("Blue", <<"uint16">>), F("Pad", <<"uint16">>) >>

ZeroVector3D == [X |-> ZeroDouble, Y |-> ZeroDouble, Z |-> ZeroDouble]

readQVector3D_layout ==
    << F("X", <<"double">>), F("Y", <<"double">>), F("Z", <<"double">>) >>

ZeroPoint2D == [X |-> ZeroDouble, Y |-> ZeroDouble]

Point2D_layout == << F("X", <<"double">>), F("Y", <<"double">>) >>

ZeroAreaExit == [RoomID |-> 0, DestRoomID |-> 0, Direction |-> 0]

AreaExit_layout ==
    << F("RoomID", <<"int32">>), F("DestRoomID", <<"int32">>),
       F("Direction", <<"int32">>) >>

ZeroFont ==
    [Family |-> <<>>, StyleHint |-> <<>>, PointSizeF |-> ZeroDouble, PixelSize |-> 0,
     StyleStrategy |-> 0, Weight |-> 0, Style |-> 0, Underline |-> 0, StrikeOut |-> 0,
     Capitalization |-> 0, LetterSpacing |-> 0, WordSpacing |-> 0, Stretch |-> 0,
     HintingPreference |-> 0]

readQFont_layout ==
    << F("Family", <<"qstring">>), F("StyleHint", <<"qstring">>),
       F("PointSizeF", <<"double">>), F("PixelSize", <<"int32">>),
       F("StyleStrategy", <<"int8">>), F("Weight", <<"uint16">>),
       F("Style", <<"byte">>), F("Underline", <<"int8">>), F("StrikeOut", <<"int8">>),
       F("_", <<"uint16">>), F("Capitalization", <<"int8">>),
       F("LetterSpacing", <<"int32">>), F("WordSpacing", <<"int32">>),
       F("Stretch", <<"int8">>), F("HintingPreference", <<"int8">>) >>

\* the zero value a failed read leaves in its destination
ZeroOf(t) ==
    CASE t[1] \in {"int32", "uint16", "int8", "byte"} -> 0
      [] t[1] = "uint32" -> <<0, 0>>
      [] t[1] = "bool" -> FALSE
      [] t[1] = "double" -> ZeroDouble
      [] t[1] = "qcolor" -> ZeroColor
      [] t[1] = "vec3" -> ZeroVector3D
      [] t[1] = "point2d" -> ZeroPoint2D
      [] t[1] = "areaexit" -> ZeroAreaExit
      [] t[1] = "qfont" -> ZeroFont
      [] OTHER -> <<>>

PanicKind == "panic: makeslice: cap out of range"

\* make([]T, 0, n) / make(map, n): the capacity is recorded in mem
Make(rd, n) == [rd EXCEPT !.mem = IF n > @ THEN n ELSE @]

PNGSignature == <<137, 80, 78, 71>>
IENDMarker == <<73, 69, 78, 68>>

\* the number of bytes read once the end marker is in the window: the marker
\* and its 4-byte CRC
PNGTailLen_markerOnly == Len(IENDMarker)

PNGTailLen == 8

\* where a scan that reads one byte at a time from offset from, peeking 4
\* bytes before each, finds the end marker: the offsets that hold it, the
\* first of them, and the offset at which the peek fails when there is none
MarkerOffsets(from) ==
    {i \in from..(Len(data) - 4) : Bytes(i, 4) = IENDMarker}

FirstMarker(from) ==
    CHOOSE i \in MarkerOffsets(from) : \A j \in MarkerOffsets(from) : i <= j

PeekFails(from, n) == IF Len(data) - n + 1 > from THEN Len(data) - n + 1 ELSE from

\* parser.readPNG: reads byte by byte from the signature until the peek shows
\* the end marker, then the marker and its CRC byte by byte; v is the bytes
\* appended to buf
readPNG(rd, buf) ==
    IF MarkerOffsets(rd.off) = {}
    THEN Bind(PeekFails(rd.off, 4) - rd.off, LAMBDA n :
            Fail(buf \o Bytes(rd.off, n), Advance(rd, n), Peek(Advance(rd, n), 4).e))
    ELSE Bind(FirstMarker(rd.off), LAMBDA at :
         Bind(at - rd.off + Min(PNGTailLen, Len(data) - at), LAMBDA n :
            IF Len(data) - at < PNGTailLen
            THEN Bind(ReadByte(Advance(rd, n)), LAMBDA x :
                    Fail(buf \o Bytes(rd.off, n), x.r, x.e))
            ELSE Ok(buf \o Bytes(rd.off, n), Advance(rd, n))))

IsPNG_anyBytes(sig) == Len(sig) = 4

\* the signature test of readQPixmap
IsPNG(sig) == sig = PNGSignature

\* the record of one image field: mark is the cursor just after the presence
\* marker, png whether the signature was there, x the outcome of the field
\* (x.v the image bytes handed back, x.r.off the cursor it left), dropped
\* whether the caller discarded the scan's error, by the scanner
LogImage(by, mark, png, x, dropped) ==
    [x EXCEPT !.r.img = Append(@, [by |-> by, mark |-> mark, png |-> png,
                                   end |-> x.r.off, ok |-> x.ok, n |-> Len(x.v),
                                   dropped |-> dropped])]

\* parser.readQPixmap: the presence marker, a peek for the signature, the scan
readQPixmap(rd) ==
    Bind(ReadUInt32(rd), LAMBDA mk :
        IF ~mk.ok THEN Fail(<<>>, mk.r, mk.e)
        ELSE Bind(Peek(mk.r, 4), LAMBDA sig :
            IF ~sig.ok THEN LogImage("readPNG", mk.r.off, FALSE, Ok(<<>>, mk.r), FALSE)
            ELSE IF ~IsPNG(sig.v)
            THEN LogImage("readPNG", mk.r.off, FALSE, Ok(<<>>, mk.r), FALSE)
            ELSE LogImage("readPNG", mk.r.off, TRUE, readPNG(mk.r, <<>>), FALSE)))

ZeroLabel ==
    [ID |-> 0, Pos |-> ZeroVector3D, Width |-> ZeroDouble, Height |-> ZeroDouble,
     Text |-> <<>>, FgColor |-> ZeroColor, BgColor |-> ZeroColor, Pixmap |-> <<>>,
     NoScaling |-> FALSE, ShowOnTop |-> FALSE]

\* parser.readLabel: a map-level label (below version 21)
readLabel_layout ==
    << F("ID", <<"int32">>), F("Pos", <<"vec3">>),
       F("_", <<"double">>), F("_", <<"double">>),
       F("Width", <<"double">>), F("Height", <<"double">>),
       F("Text", <<"qstring">>), F("FgColor", <<"qcolor">>), F("BgColor", <<"qcolor">>),
       F("Pixmap", <<"qpixmap">>),
       F("NoScaling", <<"bool">>), F("ShowOnTop", <<"bool">>) >>

\* parser.readAreaLabels reads the id, parser.readLabelV21 the rest
readLabelV21_layout ==
    << F("ID", <<"int32">>), F("Pos", <<"vec3">>),
       F("Width", <<"double">>), F("Height", <<"double">>),
       F("Text", <<"qstring">>), F("FgColor", <<"qcolor">>), F("BgColor", <<"qcolor">>),
       F("Pixmap", <<"qpixmap">>),
       F("NoScaling", <<"bool">>), F("ShowOnTop", <<"bool">>) >>

NumExits == 12
NoExit == -1

\* the command of an old special exit kept with its lock prefix
StripLockPrefix_kept(cmd) == cmd

\* the lock prefix is cut off a command of more than one byte
StripLockPrefix(cmd) == IF Len(cmd) > 1 THEN Tail(cmd) ELSE cmd

\* parser.readSpecialExits, versions 6 to 20: (destination, command) pairs
RECURSIVE readSpecialExitsOldLoop(_, _, _)
readSpecialExitsOldLoop(rd, left, acc) ==
    IF left <= 0 THEN Ok(acc, rd)
    ELSE Bind(ReadInt32(rd), LAMBDA d :
        IF ~d.ok THEN Fail(acc, d.r, d.e)
        ELSE Bind(ReadQString(d.r), LAMBDA c :
            IF ~c.ok THEN Fail(acc, c.r, c.e)
            ELSE readSpecialExitsOldLoop(c.r, left - 1,
                     MapPut(acc, StripLockPrefix(c.v), d.v))))

readSpecialExitsOld(rd, init) ==
    Bind(ReadInt32(rd), LAMBDA c :
        IF ~c.ok THEN Fail(init, c.r, c.e)
        ELSE readSpecialExitsOldLoop(c.r, LoopCount(c.r, c.v), init))

\* uint16(v) << 8
Shl8U16(v) == ((v % 65536) * 256) % 65536

\* parser.readRoomCustomLinesOld, one colour: a list of ints, three of them used
RECURSIVE readRGBLoop(_, _, _)
readRGBLoop(rd, left, acc) ==
    IF left <= 0 THEN Ok(acc, rd)
    ELSE Bind(ReadInt32(rd), LAMBDA x :
        IF ~x.ok THEN Fail(acc, x.r, x.e)
        ELSE readRGBLoop(x.r, left - 1, Append(acc, x.v)))

readRGBList(rd) ==
    Bind(ReadInt32(rd), LAMBDA c :
        IF ~c.ok THEN Fail(ZeroColor, c.r, c.e)
        ELSE Bind(readRGBLoop(c.r, LoopCount(c.r, c.v), <<>>), LAMBDA x :
            IF ~x.ok THEN Fail(ZeroColor, x.r, x.e)
            ELSE Bind([i \in 1..3 |-> IF i <= Len(x.v) THEN x.v[i] ELSE 0], LAMBDA rgb :
                Ok([Spec |-> 0, Alpha |-> 65535, Red |-> Shl8U16(rgb[1]),
                    Green |-> Shl8U16(rgb[2]), Blue |-> Shl8U16(rgb[3]),
                    Pad |-> 0], x.r))))

RECURSIVE ReadTyped(_, _, _)
RECURSIVE ReadRecord(_, _, _)
RECURSIVE ReadElemsHalves(_, _, _, _)
RECURSIVE ReadPairsHalves(_, _, _, _, _)

\* count more elements of type t appended to acc; the loop is unrolled by
\* halves (the first half, then the second unless the first failed)
ReadElemsHalves(rd, t, count, acc) ==
    IF count <= 0 THEN Ok(acc, rd)
    ELSE IF count = 1
    THEN Bind(ReadTyped(rd, t, ZeroOf(t)), LAMBDA x :
            IF ~x.ok THEN Fail(acc, x.r, x.e) ELSE Ok(Append(acc, x.v), x.r))
    ELSE Bind(ReadElemsHalves(rd, t, count \div 2, acc), LAMBDA a :
            IF ~a.ok THEN a ELSE ReadElemsHalves(a.r, t, count - count \div 2, a.v))

ReadElems(rd, t, count, acc) == ReadElemsHalves(rd, t, LoopCount(rd, count), acc)

\* left more (key, value) pairs put into acc, unrolled the same way
ReadPairsHalves(rd, kt, vt, left, acc) ==
    IF left <= 0 THEN Ok(acc, rd)
    ELSE IF left = 1
    THEN Bind(ReadTyped(rd, kt, ZeroOf(kt)), LAMBDA k :
            IF ~k.ok THEN Fail(acc, k.r, k.e)
            ELSE Bind(ReadTyped(k.r, vt, ZeroOf(vt)), LAMBDA v :
                IF ~v.ok THEN Fail(acc, v.r, v.e)
                ELSE Ok(MapPut(acc, k.v, v.v), v.r)))
    ELSE Bind(ReadPairsHalves(rd, kt, vt, left \div 2, acc), LAMBDA a :
            IF ~a.ok THEN a
            ELSE ReadPairsHalves(a.r, kt, vt, left - left \div 2, a.v))

ReadPairs(rd, kt, vt, left, acc) ==
    ReadPairsHalves(rd, kt, vt, LoopCount(rd, left), acc)

\* make([]T, 0, count) panics on a negative count
MakeSlicePanics(count) == count < 0

ReadList(rd, t, init) ==
    Bind(ReadInt32(rd), LAMBDA c :
        IF ~c.ok THEN Fail(init, c.r, c.e)
        ELSE IF MakeSlicePanics(c.v) THEN Fail(init, c.r, PanicKind)
        ELSE ReadElems(Make(c.r, c.v), t, c.v, <<>>))

ReadMap(rd, kt, vt, init) ==
    Bind(ReadInt32(rd), LAMBDA c :
        IF ~c.ok THEN Fail(init, c.r, c.e)
        ELSE ReadPairs(c.r, kt, vt, c.v, init))

\* parser.readQMapIntInt: a fresh make(map, count); nil on failure
readQMapIntInt(rd) ==
    Bind(ReadInt32(rd), LAMBDA c :
        IF ~c.ok THEN Fail(EmptyMap, c.r, c.e)
        ELSE Bind(ReadPairs(Make(c.r, c.v), <<"int32">>, <<"int32">>, c.v, EmptyMap),
                  LAMBDA x : IF x.ok THEN x ELSE Fail(EmptyMap, x.r, x.e)))

ReadTyped(rd, t, init) ==
    CASE t[1] = "int32" -> ReadInt32(rd)
      [] t[1] = "uint32" -> ReadUInt32(rd)
      [] t[1] = "uint16" -> ReadUInt16(rd)
      [] t[1] = "int8" -> ReadInt8(rd)
      [] t[1] = "byte" -> ReadByte(rd)
      [] t[1] = "bool" -> ReadBool(rd)
      [] t[1] = "double" -> ReadDouble(rd)
      [] t[1] = "qstring" -> ReadQString(rd)
      [] t[1] = "qcolor" -> ReadRecord(rd, readQColor_layout, ZeroColor)
      [] t[1] = "vec3" -> ReadRecord(rd, readQVector3D_layout, ZeroVector3D)
      [] t[1] = "point2d" -> ReadRecord(rd, Point2D_layout, ZeroPoint2D)
      [] t[1] = "areaexit" -> ReadRecord(rd, AreaExit_layout, ZeroAreaExit)
      [] t[1] = "qfont" -> ReadRecord(rd, readQFont_layout, ZeroFont)
      [] t[1] = "list" -> ReadList(rd, t[2], init)
      [] t[1] = "map" -> ReadMap(rd, t[2], t[3], init)
      [] t[1] = "maphint" -> readQMapIntInt(rd)
      [] t[1] = "qpixmap" -> readQPixmap(rd)
      [] t[1] = "label" -> ReadRecord(rd, readLabel_layout, ZeroLabel)
      [] t[1] = "labelV21" -> ReadRecord(rd, readLabelV21_layout, ZeroLabel)
      [] t[1] = "exits" -> ReadElems(rd, <<"int32">>, NumExits, <<>>)
      [] t[1] = "specialExitsOld" -> readSpecialExitsOld(rd, init)
      [] t[1] = "rgblist" -> readRGBList(rd)

\* the fields of layout in order, stopping at the first failure; a layout of
\* several fields is read by halves
ReadRecord(rd, layout, rec) ==
    IF layout = <<>> THEN Ok(rec, rd)
    ELSE IF Len(layout) = 1
    THEN LET s == Head(layout)
         IN  Bind(ReadTyped(rd, s.t, IF s.f = "_" THEN <<>> ELSE rec[s.f]), LAMBDA x :
                LET rec1 == IF s.f = "_" THEN rec ELSE [rec EXCEPT ![s.f] = x.v]
                IN  IF ~x.ok THEN Fail(rec1, x.r, x.e) ELSE Ok(rec1, x.r))
    ELSE LET h == Len(layout) \div 2
         IN  Bind(ReadRecord(rd, SubSeq(layout, 1, h), rec), LAMBDA a :
                IF ~a.ok THEN a
                ELSE ReadRecord(a.r, SubSeq(layout, h + 1, Len(layout)), a.v))

----------------------------------------------------------------------------
(* Document types (MudletMap, MudletArea, MudletRoom) and record layouts   *)

NewMudletMap ==
    [Version |-> 0, EnvColors |-> EmptyMap, CustomEnvColors |-> EmptyMap,
     RoomDbHashToRoomId |-> EmptyMap, RoomIdHash |-> EmptyMap, UserData |-> EmptyMap,
     MapSymbolFont |-> ZeroFont, MapFontFudgeFactor |-> ZeroDouble,
     UseOnlyMapFont |-> FALSE, Areas |-> EmptyMap, Rooms |-> EmptyMap,
     Labels |-> EmptyMap]

NewMudletArea(id, name) ==
    [ID |-> id, Name |-> name, Rooms |-> <<>>, ZLevels |-> <<>>, AreaExits |-> <<>>,
     GridMode |-> FALSE, MaxX |-> 0, MaxY |-> 0, MaxZ |-> 0, MinX |-> 0, MinY |-> 0,
     MinZ |-> 0, Span |-> ZeroVector3D, XMaxForZ |-> EmptyMap, YMaxForZ |-> EmptyMap,
     XMinForZ |-> EmptyMap, YMinForZ |-> EmptyMap, Pos |-> ZeroVector3D,
     IsZone |-> FALSE, ZoneAreaRef |-> 0, Last2DMapZoom |-> ZeroDouble,
     UserData |-> EmptyMap, Labels |-> <<>>]

NewMudletRoom(id) ==
    [ID |-> id, Area |-> 0, X |-> 0, Y |-> 0, Z |-> 0,
     Exits |-> [i \in 1..NumExits |-> NoExit], Environment |-> 0, Weight |-> 1,
     Name |-> <<>>, IsLocked |-> FALSE, SpecialExits |-> EmptyMap, Symbol |-> <<>>,
     SymbolColor |-> Nil, UserData |-> EmptyMap, CustomLines |-> EmptyMap,
     CustomLinesArrow |-> EmptyMap, CustomLinesColor |-> EmptyMap,
     CustomLinesStyle |-> EmptyMap, SpecialExitLocks |-> <<>>, ExitLocks |-> <<>>,
     ExitStubs |-> <<>>, ExitWeights |-> EmptyMap, Doors |-> EmptyMap]

\* the label query with the claim's test: by version, not by what the area holds
GetLabelsForArea_byVersion(doc, areaID) ==
    IF doc.Version >= 21
    THEN IF areaID \in DOMAIN doc.Areas THEN doc.Areas[areaID].Labels ELSE <<>>
    ELSE IF areaID \in DOMAIN doc.Labels THEN doc.Labels[areaID] ELSE <<>>

\* MudletMap.GetLabelsForArea; a nil slice is the empty sequence
GetLabelsForArea(doc, areaID) ==
    IF areaID \in DOMAIN doc.Areas /\ Len(doc.Areas[areaID].Labels) > 0
    THEN doc.Areas[areaID].Labels
    ELSE IF areaID \in DOMAIN doc.Labels THEN doc.Labels[areaID] ELSE <<>>

StrStrMap == <<"map", <<"qstring">>, <<"qstring">>>>
StrIntMap == <<"map", <<"qstring">>, <<"int32">>>>
IntIntMapHint == <<"maphint", <<"int32">>, <<"int32">>>>

When(cond, layout) == IF cond THEN layout ELSE <<>>

\* parser.readAreaData
readAreaData_layout(version) ==
    << F("Rooms", <<"list", <<"uint32">>>>), F("ZLevels", <<"list", <<"int32">>>>),
       F("AreaExits", <<"list", <<"areaexit">>>>), F("GridMode", <<"bool">>),
       F("MaxX", <<"int32">>), F("MaxY", <<"int32">>), F("MaxZ", <<"int32">>),
       F("MinX", <<"int32">>), F("MinY", <<"int32">>), F("MinZ", <<"int32">>),
       F("Span", <<"vec3">>),
       F("XMaxForZ", IntIntMapHint), F("YMaxForZ", IntIntMapHint),
       F("XMinForZ", IntIntMapHint), F("YMinForZ", IntIntMapHint),
       F("Pos", <<"vec3">>), F("IsZone", <<"bool">>), F("ZoneAreaRef", <<"int32">>) >>
    \o When(version >= 21, << F("Last2DMapZoom", <<"double">>) >>)
    \o << F("UserData", StrStrMap) >>
    \o When(version >= 21, << F("Labels", <<"list", <<"labelV21">>>>) >>)

\* parser.readSpecialExits
readSpecialExits_layout(version) ==
    IF version >= 21 THEN << F("SpecialExits", StrIntMap) >>
    ELSE IF version >= 6 THEN << F("SpecialExits", <<"specialExitsOld">>) >>
    ELSE <<>>

\* parser.readRoomSymbol
readRoomSymbol_layout(version) ==
    IF version >= 19 THEN << F("Symbol", <<"qstring">>) >>
    ELSE IF version >= 9 THEN << F("_", <<"byte">>) >>
    ELSE <<>>

CustomLinesMap == <<"map", <<"qstring">>, <<"list", <<"point2d">>>>>>

\* parser.readRoomCustomLinesV20
readRoomCustomLinesV20_layout(version) ==
    << F("CustomLines", CustomLinesMap),
       F("CustomLinesArrow", <<"map", <<"qstring">>, <<"bool">>>>),
       F("CustomLinesColor", <<"map", <<"qstring">>, <<"qcolor">>>>),
       F("CustomLinesStyle", StrIntMap) >>
    \o When(version >= 21, << F("SpecialExitLocks", <<"list", <<"qstring">>>>) >>)
    \o << F("ExitLocks", <<"list", <<"int32">>>>) >>

\* parser.readRoomCustomLinesOld
readRoomCustomLinesOld_layout ==
    << F("CustomLines", CustomLinesMap),
       F("CustomLinesArrow", <<"map", <<"qstring">>, <<"bool">>>>),
       F("CustomLinesColor", <<"map", <<"qstring">>, <<"rgblist">>>>),
       F("_", StrStrMap),
       F("ExitLocks", <<"list", <<"int32">>>>) >>

\* parser.readRoomCustomLines
readRoomCustomLines_layout(version) ==
    IF version >= 20 THEN readRoomCustomLinesV20_layout(version)
    ELSE readRoomCustomLinesOld_layout

\* parser.readRoom with the exit stubs read one version early
readRoom_layout_stubsFrom12(version) ==
    << F("Area", <<"int32">>), F("X", <<"int32">>), F("Y", <<"int32">>),
       F("Z", <<"int32">>), F("Exits", <<"exits">>), F("Environment", <<"int32">>),
       F("Weight", <<"int32">>), F("Name", <<"qstring">>), F("IsLocked", <<"bool">>) >>
    \o readSpecialExits_layout(version)
    \o readRoomSymbol_layout(version)
    \o When(version >= 21, << F("SymbolColor", <<"qcolor">>) >>)
    \o When(version >= 10, << F("UserData", StrStrMap) >>)
    \o When(version >= 11, readRoomCustomLines_layout(version))
    \o When(version >= 12, << F("ExitStubs", <<"list", <<"int32">>>>) >>)
    \o When(version >= 16, << F("ExitWeights", StrIntMap), F("Doors", StrIntMap) >>)

\* parser.readRoom
readRoom_layout(version) ==
    << F("Area", <<"int32">>), F("X", <<"int32">>), F("Y", <<"int32">>),
       F("Z", <<"int32">>), F("Exits", <<"exits">>), F("Environment", <<"int32">>),
       F("Weight", <<"int32">>), F("Name", <<"qstring">>), F("IsLocked", <<"bool">>) >>
    \o readSpecialExits_layout(version)
    \o readRoomSymbol_layout(version)
    \o When(version >= 21, << F("SymbolColor", <<"qcolor">>) >>)
    \o When(version >= 10, << F("UserData", StrStrMap) >>)
    \o When(version >= 11, readRoomCustomLines_layout(version))
    \o When(version >= 13, << F("ExitStubs", <<"list", <<"int32">>>>) >>)
    \o When(version >= 16, << F("ExitWeights", StrIntMap), F("Doors", StrIntMap) >>)

\* parser.readRoom: nil and the error when a field fails
readRoom(rd, version, roomID) ==
    Bind(ReadRecord(rd, readRoom_layout(version), NewMudletRoom(roomID)), LAMBDA x :
        IF x.ok THEN x ELSE Fail(Nil, x.r, x.e))

\* parser.readAreaNames: each (id, name) becomes a fresh area
RECURSIVE readAreaNamesLoop(_, _, _)
readAreaNamesLoop(rd, left, areas) ==
    IF left <= 0 THEN Ok(areas, rd)
    ELSE Bind(ReadInt32(rd), LAMBDA id :
        IF ~id.ok THEN Fail(areas, id.r, id.e)
        ELSE Bind(ReadQString(id.r), LAMBDA name :
            IF ~name.ok THEN Fail(areas, name.r, name.e)
            ELSE readAreaNamesLoop(name.r, left - 1,
                     MapPut(areas, id.v, NewMudletArea(id.v, name.v)))))

readAreaNames(rd, areas) ==
    Bind(ReadInt32(rd), LAMBDA c :
        IF ~c.ok THEN Fail(areas, c.r, c.e)
        ELSE readAreaNamesLoop(c.r, LoopCount(c.r, c.v), areas))

\* parser.readAreas: the area is put into p.m.Areas before its data is read
RECURSIVE readAreasLoop(_, _, _, _)
readAreasLoop(rd, version, left, areas) ==
    IF left <= 0 THEN Ok(areas, rd)
    ELSE Bind(ReadInt32(rd), LAMBDA id :
        IF ~id.ok THEN Fail(areas, id.r, id.e)
        ELSE LET area == IF id.v \in DOMAIN areas THEN areas[id.v]
                         ELSE NewMudletArea(id.v, <<>>)
             IN  Bind(ReadRecord(id.r, readAreaData_layout(version), area), LAMBDA x :
                    LET areas1 == MapPut(areas, id.v, x.v)
                    IN  IF ~x.ok THEN Fail(areas1, x.r, x.e)
                        ELSE readAreasLoop(x.r, version, left - 1, areas1)))

readAreas(rd, version, areas) ==
    Bind(ReadInt32(rd), LAMBDA c :
        IF ~c.ok THEN Fail(areas, c.r, c.e)
        ELSE readAreasLoop(c.r, version, LoopCount(c.r, c.v), areas))

\* parser.readLabels: per area a label count, the area id and the labels; the
\* list is stored once all labels of the area are read
RECURSIVE readLabelsLoop(_, _, _)
readLabelsLoop(rd, left, labels) ==
    IF left <= 0 THEN Ok(labels, rd)
    ELSE Bind(ReadInt32(rd), LAMBDA n :
        IF ~n.ok THEN Fail(labels, n.r, n.e)
        ELSE Bind(ReadInt32(n.r), LAMBDA a :
            IF ~a.ok THEN Fail(labels, a.r, a.e)
            ELSE IF MakeSlicePanics(n.v) THEN Fail(labels, a.r, PanicKind)
            ELSE Bind(ReadElems(Make(a.r, n.v), <<"label">>, n.v, <<>>), LAMBDA x :
                IF ~x.ok THEN Fail(labels, x.r, x.e)
                ELSE readLabelsLoop(x.r, left - 1, MapPut(labels, a.v, x.v)))))

readLabels(rd, labels) ==
    Bind(ReadInt32(rd), LAMBDA c :
        IF ~c.ok THEN Fail(labels, c.r, c.e)
        ELSE readLabelsLoop(c.r, LoopCount(c.r, c.v), labels))

----------------------------------------------------------------------------
(* Input streams: a well-formed map file of a given version, every         *)
(* truncation of it, and copies with one count or length field overwritten *)

\* rooms in the well-formed file
MaxRooms == 2
\* payload bytes between the PNG signature and the end marker
MaxPayload == 2

U16(n) == <<n \div 256, n % 256>>

I32(n) ==
    LET k == IF n < 0 THEN n + 1073741824 + 1073741824 ELSE n
    IN  << (k \div 16777216) + (IF n < 0 THEN 128 ELSE 0),
           (k \div 65536) % 256, (k \div 256) % 256, k % 256 >>

NullQString == <<255, 255, 255, 255>>

RECURSIVE Utf16BE(_)
Utf16BE(str) == IF str = <<>> THEN <<>> ELSE <<0, Head(str)>> \o Utf16BE(Tail(str))

\* an ASCII string as a QString
QStr(str) == I32(2 * Len(str)) \o Utf16BE(str)

Dbl == <<64, 0, 0, 0, 0, 0, 0, 0>>

ColorBytes == <<1>> \o U16(65535) \o U16(256) \o U16(512) \o U16(768) \o U16(0)

Rep(n, bs) == [i \in 1..(n * Len(bs)) |-> bs[((i - 1) % Len(bs)) + 1]]

PayloadBytes == <<73, 69, 7, 78, 68, 9>>

PNGBytes ==
    PNGSignature \o SubSeq(Rep(MaxPayload, PayloadBytes), 1, MaxPayload)
        \o IENDMarker \o <<174, 66, 96, 130>>

\* a label with an embedded image (withPNG) or with an image field that holds
\* only the presence marker
LabelBytes(id, v21, withPNG) ==
    I32(id) \o Rep(3, Dbl) \o (IF v21 THEN <<>> ELSE Rep(2, Dbl)) \o Rep(2, Dbl)
        \o QStr(<<76>>) \o ColorBytes \o ColorBytes
        \o (IF withPNG THEN I32(1) \o PNGBytes ELSE I32(0))
        \o <<1, 0>>

FontBytes ==
    NullQString \o NullQString \o Dbl \o I32(10) \o <<0>> \o U16(50) \o <<0, 0, 0>>
        \o U16(0) \o <<0>> \o I32(0) \o I32(0) \o <<0, 0>>

GlobalBytes(version) ==
    I32(version)
        \o I32(1) \o I32(1) \o I32(7)                   \* envColors
        \o I32(1) \o I32(1) \o QStr(<<65>>)             \* areaNames
        \o I32(1) \o I32(2) \o ColorBytes               \* mCustomEnvColors
        \o I32(0)                                       \* mpRoomDbHashToRoomId
        \o I32(1) \o QStr(<<107>>) \o QStr(<<118>>)     \* mUserData
        \o FontBytes \o Dbl \o <<1>>

AreaDataBytes(version) ==
    I32(1) \o I32(1) \o I32(1) \o I32(0) \o I32(0) \o <<0>>
        \o Rep(6, I32(5)) \o Rep(3, Dbl)
        \o I32(1) \o I32(0) \o I32(5) \o I32(0) \o I32(0) \o I32(0)
        \o Rep(3, Dbl) \o <<0>> \o I32(0)
        \o (IF version >= 21 THEN Dbl ELSE <<>>)
        \o I32(0)
        \o (IF version >= 21
            THEN I32(2) \o LabelBytes(1, TRUE, TRUE) \o LabelBytes(2, TRUE, FALSE)
            ELSE <<>>)

AreasBytes(version) == I32(1) \o I32(1) \o AreaDataBytes(version)

\* the map-level labels section: below version 21 one area with two labels
LabelsBytes(version) ==
    IF version >= 21 THEN I32(0)
    ELSE I32(1) \o I32(2) \o I32(1)
             \o LabelBytes(1, FALSE, TRUE) \o LabelBytes(2, FALSE, FALSE)

RoomBytesN(id, version, nexits) ==
    I32(id) \o I32(1) \o I32(id) \o I32(0) \o I32(0)
        \o Rep(nexits, I32(NoExit))
        \o I32(2) \o I32(1) \o QStr(<<82>>) \o <<0>>
        \o (IF version >= 21 THEN I32(1) \o QStr(<<103, 111>>) \o I32(2)
            ELSE IF version >= 6 THEN I32(1) \o I32(2) \o QStr(<<48, 103, 111>>)
            ELSE <<>>)
        \o (IF version >= 19 THEN QStr(<<115>>)
            ELSE IF version >= 9 THEN <<1>> ELSE <<>>)
        \o (IF version >= 21 THEN ColorBytes ELSE <<>>)
        \o (IF version >= 10 THEN I32(0) ELSE <<>>)
        \o (IF version >= 11 THEN Rep(4, I32(0)) ELSE <<>>)
        \o (IF version >= 21 THEN I32(0) ELSE <<>>)
        \o (IF version >= 11 THEN I32(0) ELSE <<>>)
        \o (IF version >= 13 THEN I32(0) ELSE <<>>)
        \o (IF version >= 16 THEN I32(0) \o I32(0) ELSE <<>>)

RECURSIVE RoomsBytes(_, _, _)
RoomsBytes(n, version, nexits) ==
    IF n <= 0 THEN <<>>
    ELSE RoomsBytes(n - 1, version, nexits) \o RoomBytesN(n, version, nexits)

BeforeAreas(version) == GlobalBytes(version)
BeforeLabels(version) == BeforeAreas(version) \o AreasBytes(version) \o I32(0)
BeforeRooms(version) == BeforeLabels(version) \o LabelsBytes(version)

MapFile(version) == BeforeRooms(version) \o RoomsBytes(MaxRooms, version, NumExits)

Versions == {5, 20, 21}

Truncations(file) == {SubSeq(file, 1, n) : n \in 0..Len(file)}

\* file with the 4 bytes at offset off (0-based) replaced by bs
Patch(file, off, bs) ==
    [i \in 1..Len(file) |-> IF i > off /\ i <= off + 4 THEN bs[i - off] ELSE file[i]]

\* count values a well-formed file never holds
BadCounts == {I32(-1), I32(2000000), <<127, 255, 255, 255>>}

\* offsets of count fields: envColors, the first area's room list and its
\* first int-int map, the labels section, its first label list
CountOffsets(version) ==
    {4, Len(BeforeAreas(version)) + 8, Len(BeforeAreas(version)) + 73,
     Len(BeforeLabels(version))}
        \cup (IF version < 21 THEN {Len(BeforeLabels(version)) + 4} ELSE {})

\* bytes kept after an overwritten count
PatchTail == 24

Patched(version) ==
    {SubSeq(Patch(MapFile(version), off, bs), 1, off + 4 + PatchTail) :
        off \in CountOffsets(version), bs \in BadCounts}

\* leading version integers that no release of the format wrote
NonPositiveVersions == {0, -1}

\* file with its leading version integer replaced by v
Reversioned(file, v) == Patch(file, 0, I32(v))

NonPositiveInputs ==
    UNION {Truncations(Reversioned(MapFile(5), v)) : v \in NonPositiveVersions}

\* a version-21 file whose rooms follow the room-id hash table directly
DirectRoomsFile == BeforeLabels(21) \o RoomsBytes(MaxRooms, 21, NumExits)

\* file with the 8-byte tag and a version byte in place of its version integer
Retagged(file, v) ==
    <<65, 84, 65, 68, 78, 79, 79, 77>> \o <<v>> \o SubSeq(file, 5, Len(file))

Inputs ==
    UNION {Truncations(MapFile(v)) \cup Patched(v) : v \in Versions}
        \cup NonPositiveInputs \cup {DirectRoomsFile, Retagged(MapFile(20), 20)}

----------------------------------------------------------------------------
(* parser.parse / ParseMap  (the struct-based decoder)                     *)

parseOrder ==
    << "version", "envColors", "areaNames", "mCustomEnvColors",
       "mpRoomDbHashToRoomId", "mUserData", "mapSymbolFont", "mapFontFudgeFactor",
       "useOnlyMapFont", "areas", "mRoomIdHash", "labels", "rooms", "done" >>

Rank(sec) == CHOOSE i \in 1..Len(parseOrder) : parseOrder[i] = sec

NextSection_skipsOne(sec) == parseOrder[Min(Rank(sec) + 2, Len(parseOrder))]

\* the section parse() goes to after sec
NextSection(sec) == parseOrder[Rank(sec) + 1]

ParseMap_return_rejectsEmpty(doc, err) ==
    IF err # NoErr \/ doc.Rooms = EmptyMap
    THEN [m |-> Nil, err |-> [sec |-> "rooms", kind |-> "no rooms"]]
    ELSE [m |-> doc, err |-> NoErr]

\* ParseMap: nil and the error when parse() failed, the document otherwise
ParseMap_return(doc, err) ==
    IF err # NoErr THEN [m |-> Nil, err |-> err] ELSE [m |-> doc, err |-> NoErr]

\* one section of parse(): x is the section's read, m1 the document after it
Proceed(sec, x, m1) ==
    /\ r' = x.r
    /\ m' = m1
    /\ pc' = IF x.ok THEN NextSection(sec)
             ELSE IF x.e = PanicKind THEN "panicked" ELSE "done"
    /\ ret' = IF x.ok \/ x.e = PanicKind THEN ret
              ELSE ParseMap_return(m1, [sec |-> sec, kind |-> x.e])
    /\ UNCHANGED <<process, impl, data>>

At(sec) == pc = sec /\ impl = "parser"

parse_version ==
    /\ At("version")
    /\ \E x \in {ReadInt32(r)} :
           Proceed("version", x, IF x.ok THEN [m EXCEPT !.Version = x.v] ELSE m)

readEnvColors ==
    /\ At("envColors")
    /\ \E x \in {ReadMap(r, <<"int32">>, <<"int32">>, m.EnvColors)} :
           Proceed("envColors", x, [m EXCEPT !.EnvColors = x.v])

parse_readAreaNames ==
    /\ At("areaNames")
    /\ \E x \in {readAreaNames(r, m.Areas)} :
           Proceed("areaNames", x, [m EXCEPT !.Areas = x.v])

readCustomEnvColors ==
    /\ At("mCustomEnvColors")
    /\ \E x \in {ReadMap(r, <<"int32">>, <<"qcolor">>, m.CustomEnvColors)} :
           Proceed("mCustomEnvColors", x, [m EXCEPT !.CustomEnvColors = x.v])

readRoomDbHashToRoomId ==
    /\ At("mpRoomDbHashToRoomId")
    /\ \E x \in {ReadMap(r, <<"qstring">>, <<"uint32">>, m.RoomDbHashToRoomId)} :
           Proceed("mpRoomDbHashToRoomId", x, [m EXCEPT !.RoomDbHashToRoomId = x.v])

readUserData ==
    /\ At("mUserData")
    /\ \E x \in {ReadMap(r, <<"qstring">>, <<"qstring">>, m.UserData)} :
           Proceed("mUserData", x, [m EXCEPT !.UserData = x.v])

parse_readQFont ==
    /\ At("mapSymbolFont")
    /\ \E x \in {ReadRecord(r, readQFont_layout, ZeroFont)} :
           Proceed("mapSymbolFont", x, IF x.ok THEN [m EXCEPT !.MapSymbolFont = x.v] ELSE m)

parse_mapFontFudgeFactor ==
    /\ At("mapFontFudgeFactor")
    /\ \E x \in {ReadDouble(r)} :
           Proceed("mapFontFudgeFactor", x, IF x.ok THEN [m EXCEPT !.MapFontFudgeFactor = x.v] ELSE m)

parse_useOnlyMapFont ==
    /\ At("useOnlyMapFont")
    /\ \E x \in {ReadBool(r)} :
           Proceed("useOnlyMapFont", x, IF x.ok THEN [m EXCEPT !.UseOnlyMapFont = x.v] ELSE m)

parse_readAreas ==
    /\ At("areas")
    /\ \E x \in {readAreas(r, m.Version, m.Areas)} :
           Proceed("areas", x, [m EXCEPT !.Areas = x.v])

readRoomIdHash ==
    /\ At("mRoomIdHash")
    /\ \E x \in {ReadMap(r, <<"qstring">>, <<"int32">>, m.RoomIdHash)} :
           Proceed("mRoomIdHash", x, [m EXCEPT !.RoomIdHash = x.v])

parse_readLabels ==
    /\ At("labels")
    /\ \E x \in {readLabels(r, m.Labels)} :
           Proceed("labels", x, [m EXCEPT !.Labels = x.v])

\* bytes that must be available for readRooms to read another room
RoomsPeekLen == 4

\* parser.readRooms, one iteration of its loop: stop when the peek fails, else
\* read the id and the room and store it
readRooms ==
    /\ At("rooms")
    /\ UNCHANGED <<process, impl, data>>
    /\ IF ~Peek(r, RoomsPeekLen).ok
       THEN /\ pc' = "done"
            /\ ret' = ParseMap_return(m, NoErr)
            /\ UNCHANGED <<r, m>>
       ELSE \E id \in {ReadInt32(r)} :
            IF ~id.ok
            THEN /\ pc' = "done"
                 /\ ret' = ParseMap_return(m, NoErr)
                 /\ r' = id.r
                 /\ m' = m
            ELSE \E x \in {readRoom(id.r, m.Version, id.v)} :
                 /\ r' = x.r
                 /\ m' = IF x.ok THEN [m EXCEPT !.Rooms = MapPut(@, id.v, x.v)]
                         ELSE m
                 /\ pc' = IF x.ok THEN "rooms"
                          ELSE IF x.e = PanicKind THEN "panicked" ELSE "done"
                 /\ ret' = IF x.ok \/ x.e = PanicKind THEN ret
                           ELSE ParseMap_return(m, [sec |-> "rooms", kind |-> x.e])

----------------------------------------------------------------------------
(* ParseMap / parseHeader / parseRooms  (the function-based decoder)        *)
(*                                                                         *)
(* It discards most read errors (`_, _ = qt.ReadInt32()`).  Its sections   *)
(* are sequences of steps:                                                 *)
(*   <<"rd", T>>           read T, error discarded                         *)
(*   <<"brk", T>>          read T, on an error break out of the loop       *)
(*   <<"for32", steps>>    if the int32 count reads, run steps count times *)
(*   <<"for32after", pre, steps>>  the same, after running pre once        *)
(*   <<"for32lim", steps>> the same when 0 <= count < LegacyCountLimit     *)
(*   <<"forU32", steps>>   the same with a uint32 count                    *)
(*   <<"ifok", T, steps>>  run steps if T reads                            *)
(*   <<"pixmap">>          the label image field                           *)

LegacyCountLimit == 100000

\* len(dirs): the exit targets parseRooms reads per room
LegacyDirs == 16

\* skipPNG: reads byte by byte until the peek shows the end marker, then
\* skips the marker and its CRC
skipPNG(rd) ==
    IF MarkerOffsets(rd.off) = {}
    THEN Bind(PeekFails(rd.off, 4) - rd.off, LAMBDA n :
            Fail(<<>>, Advance(rd, n), Peek(Advance(rd, n), 4).e))
    ELSE Bind(Skip(Advance(rd, FirstMarker(rd.off) - rd.off), PNGTailLen), LAMBDA x :
            IF x.ok THEN Ok(<<>>, x.r) ELSE Fail(<<>>, x.r, x.e))

\* ParseMap, the QPixMap of a label: marker, peek, `_ = skipPNG(qt)`
legacyPixmap(rd) ==
    Bind(ReadUInt32(rd), LAMBDA mk :
    Bind(Peek(mk.r, 4), LAMBDA sig :
        IF Len(sig.v) = 4 /\ IsPNG(sig.v)
        THEN Bind(skipPNG(mk.r), LAMBDA x :
                LogImage("skipPNG", mk.r.off, TRUE, x, ~x.ok).r)
        ELSE IF mk.ok THEN LogImage("skipPNG", mk.r.off, FALSE, Ok(<<>>, mk.r), FALSE).r
        ELSE mk.r))

\* a uint32 loop bound as an int: no loop over the stream runs longer than the
\* stream, so a bound beyond it is cut to it
CountU32(n) ==
    IF n[1] >= 32768 \/ n[1] * 65536 + n[2] > Len(data) THEN Len(data) + 1
    ELSE n[1] * 65536 + n[2]

RECURSIVE Run(_, _)
RECURSIVE RunLoopHalves(_, _, _)
RECURSIVE RunStep(_, _)

\* the loop body left more times, unrolled by halves; brk when the loop was
\* left by a break.  Once the stream is exhausted every further iteration
\* reads nothing, so the loop is cut there
RunLoopHalves(rd, left, steps) ==
    IF left <= 0 THEN [r |-> rd, brk |-> FALSE]
    ELSE IF Avail(rd) = 0 THEN [r |-> [rd EXCEPT !.short = TRUE], brk |-> TRUE]
    ELSE IF left = 1 THEN Run(rd, steps)
    ELSE Bind(RunLoopHalves(rd, left \div 2, steps), LAMBDA a :
            IF a.brk THEN a ELSE RunLoopHalves(a.r, left - left \div 2, steps))

RunLoop(rd, left, steps) == RunLoopHalves(rd, LoopCount(rd, left), steps)

\* one step; brk when it is a break taken
RunStep(rd, s) ==
    CASE s[1] = "rd" -> [r |-> ReadTyped(rd, s[2], ZeroOf(s[2])).r, brk |-> FALSE]
      [] s[1] = "brk" ->
            Bind(ReadTyped(rd, s[2], ZeroOf(s[2])), LAMBDA x :
                [r |-> x.r, brk |-> ~x.ok])
      [] s[1] = "for32" ->
            Bind(ReadInt32(rd), LAMBDA c :
                [r |-> IF c.ok THEN RunLoop(c.r, c.v, s[2]).r ELSE c.r, brk |-> FALSE])
      [] s[1] = "for32after" ->
            Bind(ReadInt32(rd), LAMBDA c :
                [r |-> IF c.ok THEN RunLoop(Run(c.r, s[2]).r, c.v, s[3]).r ELSE c.r,
                 brk |-> FALSE])
      [] s[1] = "for32lim" ->
            Bind(ReadInt32(rd), LAMBDA c :
                [r |-> IF c.ok /\ c.v >= 0 /\ c.v < LegacyCountLimit
                       THEN RunLoop(c.r, c.v, s[2]).r ELSE c.r,
                 brk |-> FALSE])
      [] s[1] = "forU32" ->
            Bind(ReadUInt32(rd), LAMBDA c :
                [r |-> IF c.ok THEN RunLoop(c.r, CountU32(c.v), s[2]).r ELSE c.r,
                 brk |-> FALSE])
      [] s[1] = "ifok" ->
            Bind(ReadTyped(rd, s[2], ZeroOf(s[2])), LAMBDA x :
                [r |-> IF x.ok THEN Run(x.r, s[3]).r ELSE x.r, brk |-> FALSE])
      [] s[1] = "pixmap" -> [r |-> legacyPixmap(rd), brk |-> FALSE]

\* the steps in order, by halves, up to a break
Run(rd, steps) ==
    IF steps = <<>> THEN [r |-> rd, brk |-> FALSE]
    ELSE IF Len(steps) = 1 THEN RunStep(rd, steps[1])
    ELSE LET h == Len(steps) \div 2
         IN  Bind(Run(rd, SubSeq(steps, 1, h)), LAMBDA a :
                IF a.brk THEN a ELSE Run(a.r, SubSeq(steps, h + 1, Len(steps))))

Rd(t) == <<"rd", <<t>>>>
Brk(t) == <<"brk", <<t>>>>

RECURSIVE Times(_, _)
Times(n, steps) == IF n <= 0 THEN <<>> ELSE steps \o Times(n - 1, steps)

LegacyColorSteps == <<Rd("int8")>> \o Times(5, <<Rd("uint16")>>)

LegacyFontSteps ==
    << <<"ifok", <<"qstring">>,
         << Rd("qstring"), Rd("double"), Rd("int32"), Rd("int8"), Rd("uint16"),
            Rd("byte"), Rd("int8"), Rd("int8"), Rd("uint16"), Rd("int8"),
            Rd("int32"), Rd("int32"), Rd("int8"), Rd("int8") >> >> >>

LegacyAreaSteps ==
    << Brk("int32"),
       <<"for32", <<Rd("uint32")>>>>, <<"for32", <<Rd("int32")>>>>,
       <<"for32", <<Rd("int32"), Rd("int32"), Rd("int32")>>>>,
       Rd("bool") >>
    \o Times(6, <<Rd("int32")>>) \o Times(3, <<Rd("double")>>)
    \o Times(4, << <<"for32", <<Rd("int32"), Rd("int32")>>>> >>)
    \o Times(3, <<Rd("double")>>)
    \o << Rd("bool"), Rd("int32"), <<"for32", <<Rd("qstring"), Rd("qstring")>>>> >>

LegacyLabelSteps ==
    <<Rd("int32")>> \o Times(7, <<Rd("double")>>) \o <<Rd("qstring")>>
        \o LegacyColorSteps \o LegacyColorSteps
        \o << <<"pixmap">>, Rd("bool"), Rd("bool") >>

\* the labels of the labels section, after its count was read
LegacyLabelsBody == << <<"for32after", <<Rd("int32")>>, LegacyLabelSteps>> >>

\* ParseMap sections 1 and 3 to 10: read and dropped
LegacySection(sec) ==
    CASE sec = "envColors" -> << <<"for32lim", <<Brk("int32"), Brk("int32")>>>> >>
      [] sec = "mCustomEnvColors" ->
            << <<"for32", <<Brk("int32"), Brk("int8")>> \o Times(5, <<Rd("uint16")>>)>> >>
      [] sec = "mpRoomDbHashToRoomId" ->
            << <<"for32", <<Brk("qstring"), Brk("uint32")>>>> >>
      [] sec = "mUserData" -> << <<"for32", <<Brk("qstring"), Brk("qstring")>>>> >>
      [] sec = "mapSymbolFont" -> LegacyFontSteps
      [] sec = "mapFontFudgeFactor" -> <<Rd("double")>>
      [] sec = "useOnlyMapFont" -> <<Rd("bool")>>
      [] sec = "areas" -> << <<"for32", LegacyAreaSteps>> >>
      [] sec = "mRoomIdHash" -> << <<"for32", <<Rd("qstring"), Rd("int32")>>>> >>

LegacySkipSections ==
    {"envColors", "mCustomEnvColors", "mpRoomDbHashToRoomId", "mUserData",
     "mapSymbolFont", "mapFontFudgeFactor", "useOnlyMapFont", "areas", "mRoomIdHash"}

\* the tail of a room in parseRooms, after isLocked
LegacyRoomTail ==
    << <<"forU32", <<Rd("uint32"), Rd("qstring")>>>>,
       Rd("qstring"),
       <<"forU32", <<Rd("qstring"), Rd("qstring")>>>>,
       <<"forU32", <<Rd("qstring"), <<"forU32", <<Rd("double"), Rd("double")>>>>>>>>,
       <<"forU32", <<Rd("qstring"), Rd("bool")>>>>,
       <<"forU32", <<Rd("qstring")>> \o LegacyColorSteps>>,
       <<"forU32", <<Rd("qstring"), Rd("uint32")>>>>,
       <<"forU32", <<Rd("int32")>>>>,
       <<"forU32", <<Rd("int32")>>>>,
       <<"forU32", <<Rd("qstring"), Rd("int32")>>>>,
       <<"forU32", <<Rd("qstring"), Rd("int32")>>>> >>

LegacyMagic == <<65, 84, 65, 68, 78, 79, 79, 77>>

\* int8(v)
Int8Of(v) == LET b == v % 256 IN IF b >= 128 THEN b - 256 ELSE b

\* parseHeader: the legacy tag and a version byte, or an int32 version read
\* through a reader of its own; v is the header
parseHeader(rd) ==
    Bind(Peek(rd, 8), LAMBDA peek :
        IF Len(peek.v) = 8 /\ peek.v = LegacyMagic
        THEN Bind(ReadFull(rd, 8), LAMBDA mg :
             Bind(ReadByte(mg.r), LAMBDA vb :
                IF ~vb.ok
                THEN Fail([Magic |-> LegacyMagic, Version |-> 0], vb.r,
                          "reading legacy version")
                ELSE Ok([Magic |-> LegacyMagic, Version |-> Int8Of(vb.v)], vb.r)))
        ELSE Bind(ReadInt32(rd), LAMBDA v :
                IF ~v.ok THEN Fail([Magic |-> <<>>, Version |-> 0], v.r,
                                   "reading Qt version")
                ELSE Ok([Magic |-> <<>>, Version |-> Int8Of(v.v)], v.r)))

\* skipToRoomsHeuristic with a test that accepts any area id
PlausibleRoomAt_anyArea(i, areas) == BE32(Bytes(i, 4)) > 0

\* skipToRoomsHeuristic: byte by byte until the next 8 bytes read as a
\* positive id and the id of a known area, or fewer than 8 bytes remain
PlausibleRoomAt(i, areas) ==
    /\ BE32(Bytes(i, 4)) > 0
    /\ BE32(Bytes(i + 4, 4)) \in DOMAIN areas

RECURSIVE skipToRoomsHeuristic(_, _)
skipToRoomsHeuristic(rd, areas) ==
    IF ~Peek(rd, 8).ok THEN Fail(0, rd, "EOF before rooms")
    ELSE IF PlausibleRoomAt(rd.off, areas) THEN Ok(0, rd)
    ELSE skipToRoomsHeuristic(ReadByte(rd).r, areas)

NewLegacyMap ==
    [Header |-> [Magic |-> <<>>, Version |-> 0], Rooms |-> EmptyMap,
     Areas |-> EmptyMap, Environments |-> <<>>, CustomLines |-> <<>>, Labels |-> <<>>]

\* a read whose error is discarded: the value (zero on failure) and the reader
RECURSIVE ReadRecordIgn(_, _, _)
ReadRecordIgn(rd, layout, rec) ==
    IF layout = <<>> THEN Ok(rec, rd)
    ELSE IF Len(layout) = 1
    THEN LET s == Head(layout)
         IN  Bind(ReadTyped(rd, s.t, ZeroOf(s.t)), LAMBDA x :
                Ok(IF s.f = "_" THEN rec ELSE [rec EXCEPT ![s.f] = x.v], x.r))
    ELSE LET h == Len(layout) \div 2
         IN  Bind(ReadRecordIgn(rd, SubSeq(layout, 1, h), rec), LAMBDA a :
                ReadRecordIgn(a.r, SubSeq(layout, h + 1, Len(layout)), a.v))

RECURSIVE ReadExitsIgn(_, _, _)
ReadExitsIgn(rd, left, acc) ==
    IF left <= 0 THEN Ok(acc, rd)
    ELSE IF left = 1
    THEN Bind(ReadInt32(rd), LAMBDA x : Ok(Append(acc, x.v), x.r))
    ELSE Bind(ReadExitsIgn(rd, left \div 2, acc), LAMBDA a :
            ReadExitsIgn(a.r, left - left \div 2, a.v))

\* parseRooms, the fields of a room before and after its exits
LegacyRoomHead_layout ==
    << F("_", <<"int32">>), F("X", <<"int32">>), F("Y", <<"int32">>),
       F("Z", <<"int32">>) >>

LegacyRoomMid_layout ==
    << F("Environment", <<"int32">>), F("_", <<"int32">>),
       F("Name", <<"qstring">>), F("_", <<"bool">>) >>

LegacyNewRoom(id) ==
    [ID |-> id, X |-> 0, Y |-> 0, Z |-> 0, Name |-> <<>>, Description |-> <<>>,
     Environment |-> 0, Exits |-> <<>>]

\* ParseMap section 2, areaNames: the areas replace m.Areas if there are any
RECURSIVE LegacyAreaNamesLoop(_, _, _)
LegacyAreaNamesLoop(rd, left, areas) ==
    IF left <= 0 THEN Ok(areas, rd)
    ELSE Bind(ReadInt32(rd), LAMBDA id :
        IF ~id.ok THEN Ok(areas, id.r)
        ELSE Bind(ReadQString(id.r), LAMBDA name :
            IF ~name.ok THEN Ok(areas, name.r)
            ELSE LegacyAreaNamesLoop(name.r, left - 1,
                     MapPut(areas, id.v, [ID |-> id.v, Name |-> name.v]))))

LegacyAreaNames(rd, old) ==
    Bind(ReadInt32(rd), LAMBDA c :
        IF c.ok /\ c.v >= 0 /\ c.v < LegacyCountLimit
        THEN Bind(LegacyAreaNamesLoop(c.r, LoopCount(c.r, c.v), EmptyMap), LAMBDA x :
                Ok(IF x.v # EmptyMap THEN x.v ELSE old, x.r))
        ELSE Ok(old, c.r))

Legacy(sec) == pc = sec /\ impl = "legacy"

\* ParseMap: parseHeader, and nil with its error when it fails
ParseMap_parseHeader ==
    /\ Legacy("version")
    /\ \E x \in {parseHeader(r)} :
           /\ r' = [x.r EXCEPT !.pos = 0]
           /\ m' = [m EXCEPT !.Header = x.v]
           /\ pc' = IF x.ok THEN NextSection("version") ELSE "done"
           /\ ret' = IF x.ok THEN ret
                     ELSE [m |-> Nil, err |-> [sec |-> "version", kind |-> x.e]]
    /\ UNCHANGED <<process, impl, data>>

ParseMap_areaNames ==
    /\ Legacy("areaNames")
    /\ \E x \in {LegacyAreaNames(r, m.Areas)} :
           /\ r' = x.r
           /\ m' = [m EXCEPT !.Areas = x.v]
    /\ pc' = NextSection("areaNames")
    /\ UNCHANGED <<process, impl, data, ret>>

\* ParseMap sections 1 and 3 to 10
ParseMap_skip ==
    /\ impl = "legacy"
    /\ pc \in LegacySkipSections
    /\ r' = Run(r, LegacySection(pc)).r
    /\ pc' = NextSection(pc)
    /\ UNCHANGED <<process, impl, data, m, ret>>

\* ParseMap section 11, labels: structured skipping when the count reads, the
\* heuristic scan for the rooms when it does not
ParseMap_labels ==
    /\ Legacy("labels")
    /\ \E c \in {ReadInt32(r)} :
           IF c.ok
           THEN /\ r' = RunLoop(c.r, c.v, LegacyLabelsBody).r
                /\ pc' = "rooms"
                /\ ret' = ret
           ELSE \E h \in {skipToRoomsHeuristic(c.r, m.Areas)} :
                /\ r' = h.r
                /\ pc' = IF h.ok THEN "rooms" ELSE "done"
                /\ ret' = IF h.ok THEN ret
                          ELSE [m |-> Nil,
                                err |-> [sec |-> "skipToRoomsHeuristic", kind |-> h.e]]
    /\ UNCHANGED <<process, impl, data, m>>

\* bytes that must be available for parseRooms to read another room
LegacyRoomsPeekLen == 1

\* parseRooms, one iteration of its loop; ParseMap returns the map when it ends
parseRooms ==
    /\ Legacy("rooms")
    /\ UNCHANGED <<process, impl, data>>
    /\ IF ~Peek(r, LegacyRoomsPeekLen).ok
       THEN /\ pc' = "done"
            /\ ret' = [m |-> m, err |-> NoErr]
            /\ UNCHANGED <<r, m>>
       ELSE \E id \in {ReadInt32(r)} :
            IF ~id.ok
            THEN /\ pc' = "done"
                 /\ ret' = [m |-> m, err |-> NoErr]
                 /\ r' = id.r
                 /\ m' = m
            ELSE \E hd \in {ReadRecordIgn(id.r, LegacyRoomHead_layout, LegacyNewRoom(id.v))} :
                 \E ex \in {ReadExitsIgn(hd.r, LegacyDirs, <<>>)} :
                 \E x \in {ReadRecordIgn(ex.r, LegacyRoomMid_layout, hd.v)} :
                 /\ r' = Run(x.r, LegacyRoomTail).r
                 /\ m' = [m EXCEPT !.Rooms =
                              MapPut(@, id.v, [x.v EXCEPT !.Exits = ex.v])]
                 /\ UNCHANGED <<pc, ret>>

\* the input of the function-based decoder: the version-20 file with the 16
\* exit targets per room that parseRooms reads
LegacyMapFile == BeforeRooms(20) \o RoomsBytes(MaxRooms, 20, LegacyDirs)

LegacyInputs ==
    Truncations(LegacyMapFile)
        \cup {Reversioned(LegacyMapFile, 0), Reversioned(LegacyMapFile, 276),
              Retagged(LegacyMapFile, 20)}

----------------------------------------------------------------------------

Init ==
    /\ \/ impl = "parser" /\ data \in Inputs
       \/ impl = "legacy" /\ data \in LegacyInputs
    /\ r = NewBinaryReader
    /\ m = IF impl = "parser" THEN NewMudletMap ELSE NewLegacyMap
    /\ pc = "version"
    /\ ret = [m |-> Nil, err |-> NoErr]
    /\ SingleInvocation

Next ==
    \/ parse_version
    \/ readEnvColors
    \/ parse_readAreaNames
    \/ readCustomEnvColors
    \/ readRoomDbHashToRoomId
    \/ readUserData
    \/ parse_readQFont
    \/ parse_mapFontFudgeFactor
    \/ parse_useOnlyMapFont
    \/ parse_readAreas
    \/ readRoomIdHash
    \/ parse_readLabels
    \/ readRooms
    \/ ParseMap_parseHeader
    \/ ParseMap_skip
    \/ ParseMap_areaNames
    \/ ParseMap_labels
    \/ parseRooms

Spec == Init /\ [][Next]_vars

----------------------------------------------------------------------------
(* Properties of the two decoders, checked under Spec                      *)

\* the rooms of input file f start at offset RoomsStart(f); each is RoomLen(f) long
RoomsStart(f) ==
    IF f = LegacyMapFile THEN Len(BeforeRooms(20))
    ELSE Len(BeforeRooms(BE32(SubSeq(f, 1, 4))))

RoomLen(f) == (Len(f) - RoomsStart(f)) \div MaxRooms

\* data is file f cut k whole rooms and at least 4 more bytes into its rooms
CutInRoom(f, k) ==
    /\ Len(data) < Len(f)
    /\ data = SubSeq(f, 1, Len(data))
    /\ Len(data) >= RoomsStart(f) + k * RoomLen(f) + 4
    /\ Len(data) < RoomsStart(f) + (k + 1) * RoomLen(f)

\* C1: when the stream is cut in the middle of the rooms section, ParseMap
\* returns a document holding every room decoded in full before the cut,
\* together with a non-nil error.
C1_PartialDocumentWithError ==
    \A v \in Versions : \A k \in 0..(MaxRooms - 1) :
        (impl = "parser" /\ pc = "done" /\ CutInRoom(MapFile(v), k)) =>
            /\ ret.err # NoErr
            /\ ret.m # Nil
            /\ 1..k \subseteq DOMAIN ret.m.Rooms

\* the struct-based ParseMap has returned on a stream cut inside its second room
C1_Witness ==
    /\ impl = "parser"
    /\ pc = "done"
    /\ CutInRoom(MapFile(20), 1)
    /\ ret.err # NoErr
    /\ DOMAIN m.Rooms = {1}

SectionOrder ==
    << "version", "envColors", "areaNames", "mCustomEnvColors",
       "mpRoomDbHashToRoomId", "mUserData", "mapSymbolFont", "mapFontFudgeFactor",
       "useOnlyMapFont", "areas", "mRoomIdHash", "labels", "rooms" >>

Follows(a, b) ==
    \E i \in 1..(Len(SectionOrder) - 1) : SectionOrder[i] = a /\ SectionOrder[i + 1] = b

\* C2: every step of a parse stays in the rooms section (its loop), or goes
\* from a section to the one that follows it in the fixed order, or ends the
\* parse; so each section is entered at most once and none is re-entered.
C2_FixedSectionOrder ==
    [][ \/ pc' = pc /\ pc = "rooms"
        \/ Follows(pc, pc')
        \/ pc' \in {"done", "panicked"} /\ pc \notin {"done", "panicked"} ]_vars

\* the rooms section was reached, after every other section, and has stored a room
C2_Witness ==
    /\ pc = "rooms"
    /\ m.Rooms # EmptyMap
    /\ m.Areas # EmptyMap
    /\ Len(r.img) > 0

\* an end marker at offset i, and one with its 4 trailer bytes
HasEndAt(i) ==
    /\ i + 8 <= Len(data)
    /\ <<data[i + 1], data[i + 2], data[i + 3], data[i + 4]>> = <<73, 69, 78, 68>>

MarkerAt(i) ==
    /\ i + 4 <= Len(data)
    /\ <<data[i + 1], data[i + 2], data[i + 3], data[i + 4]>> = <<73, 69, 78, 68>>

\* the offset of the first end marker at or after offset from, or -1
FirstEnd(from) ==
    IF \E i \in from..Len(data) : MarkerAt(i)
    THEN CHOOSE i \in from..Len(data) :
            MarkerAt(i) /\ \A j \in from..(i - 1) : ~MarkerAt(j)
    ELSE -1

SignatureAt(i) ==
    /\ i + 4 <= Len(data)
    /\ <<data[i + 1], data[i + 2], data[i + 3], data[i + 4]>> = <<137, 80, 78, 71>>

Images == {r.img[i] : i \in 1..Len(r.img)}

\* C3: an image field that starts with the signature and has a later end
\* marker with its 4 trailer bytes is scanned with success, the cursor is left
\* 8 bytes past the start of the first end marker, and the bytes readPNG hands
\* back are as many as the scan consumed.
C3_ScanEndsAfterTrailer ==
    \A e \in Images :
        (SignatureAt(e.mark) /\ FirstEnd(e.mark) >= 0 /\ HasEndAt(FirstEnd(e.mark))) =>
            /\ e.png /\ e.ok
            /\ e.end = FirstEnd(e.mark) + 8
            /\ e.by = "readPNG" => e.n = e.end - e.mark

\* an image was delimited whose payload held a partial end marker
C3_Witness ==
    \E e \in Images :
        /\ e.png /\ e.ok /\ e.by = "readPNG"
        /\ e.n = 4 + MaxPayload + 8
        /\ data[e.mark + 5] = 73

\* C4: an image field whose 4 bytes after the presence marker are not the
\* signature decodes as no image, with the cursor left right after the marker.
C4_NoSignatureNoImage ==
    \A e \in Images :
        (e.mark + 4 <= Len(data) /\ ~SignatureAt(e.mark)) =>
            /\ ~e.png /\ e.ok
            /\ e.n = 0
            /\ e.end = e.mark

\* a label without an image was decoded after one with an image
C4_Witness ==
    /\ Len(r.img) = 2
    /\ ~r.img[2].png
    /\ r.img[2].mark + 4 <= Len(data)
    /\ r.off > r.img[2].mark

\* C5: when the signature was seen and the stream ends before an end marker
\* and its 4 trailer bytes, the scan fails and its caller does not discard
\* the error.
C5_TruncatedImageReported ==
    \A e \in Images :
        (SignatureAt(e.mark) /\ ~(FirstEnd(e.mark) >= 0 /\ HasEndAt(FirstEnd(e.mark)))) =>
            /\ ~e.ok
            /\ ~e.dropped

\* the function-based ParseMap went on after a scan that ran out of stream
C5_Witness ==
    /\ impl = "legacy"
    /\ \E e \in Images : e.png /\ ~e.ok /\ e.dropped
    /\ pc = "done"
    /\ ret.err = NoErr

\* C6: at a room boundary with fewer than 4 bytes left the rooms section
\* ends and the parse returns the document with no error, whatever the number
\* of rooms read, zero included.
C6_RoomsEndNormally ==
    [][ (pc = "rooms" /\ Avail(r) < 4) =>
            /\ pc' = "done"
            /\ ret'.err = NoErr
            /\ ret'.m = m
            /\ m' = m ]_vars

\* a parse that read no room returned its document, with 2 stray bytes left
C6_Witness ==
    /\ pc = "done"
    /\ impl = "parser"
    /\ ret.err = NoErr
    /\ ret.m # Nil
    /\ ret.m.Rooms = EmptyMap
    /\ Avail(r) = 2

\* C7: once a fixed-width read found too few bytes the parse has ended with
\* an error: it never goes on with a zero in place of the field.
C7_ShortReadAborts ==
    r.short => (pc = "done" /\ ret.err # NoErr)

\* parseRooms stored a room after a read that found too few bytes and the
\* parse returned with no error
C7_Witness ==
    /\ impl = "legacy"
    /\ r.short
    /\ pc = "done"
    /\ ret.err = NoErr
    /\ CutInRoom(LegacyMapFile, 1)
    /\ DOMAIN ret.m.Rooms = {1, 2}

\* C8: no count makes the decoder panic or allocate for more than 1,000,000
\* elements; a parse of a stream with a negative or larger count ends with
\* an error.
C8_BadCountRejected ==
    /\ pc # "panicked"
    /\ r.mem <= 1000000
    /\ (pc = "done" /\ impl = "parser" /\ \E v \in Versions : data \in Patched(v))
            => ret.err # NoErr

\* a negative count reached make()
C8_Witness ==
    /\ pc = "panicked"
    /\ \E v \in Versions : data \in Patched(v)

\* the stream starts with a whole version integer that is zero or negative
NonPositiveLead == Len(data) >= 4 /\ BE32(SubSeq(data, 1, 4)) <= 0

\* C11: once the version field of a stream with a non-positive leading
\* version integer has been read, the parse has ended with an error at the
\* version field and no area or room has been built.
C11_NonPositiveVersionRejected ==
    (NonPositiveLead /\ pc # "version") =>
        /\ pc = "done"
        /\ ret.err # NoErr
        /\ ret.err.sec = "version"
        /\ m.Areas = EmptyMap
        /\ m.Rooms = EmptyMap

\* the struct-based parse of a version-0 stream went on to store a room
C11_Witness ==
    /\ impl = "parser"
    /\ NonPositiveLead
    /\ m.Version = 0
    /\ pc = "rooms"
    /\ m.Areas # EmptyMap
    /\ m.Rooms # EmptyMap

\* what the error returned by the parse is made of: parse() wraps the reader's
\* error in the name of its section (sec) and the reader's error names what
\* went wrong (kind)
ErrorParts == DOMAIN ret.err

\* C12: every error a parse returns carries the name of the section that was
\* being decoded and the byte offset at which the failure occurred.
C12_ErrorsCarrySectionAndOffset ==
    (pc = "done" /\ ret.err # NoErr) =>
        /\ ret.err.sec # ""
        /\ "offset" \in ErrorParts

\* a parse failed inside the rooms on a stream that ended early: the reader
\* had counted the bytes it consumed, the error names only section and cause
C12_Witness ==
    /\ impl = "parser"
    /\ pc = "done"
    /\ ret.err = [sec |-> "rooms", kind |-> "unexpected EOF"]
    /\ r.pos > 0

\* C13: from version 21 on the step taken at the map-level labels section
\* consumes no byte and stores no label, and leads to the rooms section.
C13_NoMapLabelsFromV21 ==
    [][ (impl = "parser" /\ pc = "labels" /\ m.Version >= 21) =>
            /\ pc' = "rooms"
            /\ r'.off = r.off
            /\ m'.Labels = m.Labels ]_vars

\* the parse of a version-21 file took the 4 bytes after the room-id hash
\* table as the count of a labels section and is now at the rooms
C13_Witness ==
    /\ impl = "parser"
    /\ data = MapFile(21)
    /\ m.Version = 21
    /\ pc = "rooms"
    /\ m.Rooms = EmptyMap
    /\ r.off = Len(BeforeLabels(21)) + 4


\* the stream starts with the 8-byte tag and has a byte after it
Tagged == Len(data) >= 9 /\ SubSeq(data, 1, 8) = LegacyMagic

\* the version the decoder has stored in its document
DecodedVersion == IF impl = "parser" THEN m.Version ELSE m.Header.Version

\* C19: a stream whose first 8 bytes are the tag is accepted and its version is
\* the byte after the tag; for any other stream the peek takes nothing and the
\* version is the 4-byte big-endian integer at offset 0.
C19_TagThenVersionByte ==
    /\ (Tagged /\ pc # "version") => ~(pc = "done" /\ ret.err.sec = "version")
    /\ pc = "envColors" =>
          IF Tagged THEN r.off = 9 /\ DecodedVersion = data[9]
          ELSE r.off = 4 /\ DecodedVersion = BE32(SubSeq(data, 1, 4))

\* the struct-based decoder was given a tagged stream and took the first four
\* bytes of the tag for the version
C19_Witness ==
    /\ impl = "parser" /\ Tagged /\ pc = "envColors"
    /\ r.off = 4
    /\ m.Version = BE32(<<65, 84, 65, 68>>)

\* a step of the struct-based decoder in which the areas, the labels or the
\* rooms section fails
RecordSectionFails ==
    /\ impl = "parser" /\ pc \in {"areas", "labels", "rooms"}
    /\ pc' = "done" /\ ret'.err # NoErr

\* the areas, rooms and labels stored by the rooms and labels sections are
\* those stored before a record of theirs failed
FailedRoomOrLabelNotStored ==
    [][(RecordSectionFails /\ pc # "areas") =>
           (m'.Rooms = m.Rooms /\ m'.Labels = m.Labels /\ m'.Areas = m.Areas)]_vars

\* C23: when the decoding of an area, room or label record fails partway, the
\* document's areas, rooms and labels hold nothing of that record: they are
\* what they were before the record was begun.
C23_FailedRecordNotStored ==
    [][RecordSectionFails =>
           (m'.Areas = m.Areas /\ m'.Rooms = m.Rooms /\ m'.Labels = m.Labels)]_vars

\* the areas section failed inside the data of area 1, and area 1 is in the
\* document with the room list that was decoded before the failure
C23_Witness ==
    /\ impl = "parser" /\ pc = "done" /\ ret.err.sec = "areas"
    /\ 1 \in DOMAIN m.Areas
    /\ m.Areas[1].Rooms # <<>>
    /\ m.Areas[1].UserData = EmptyMap

\* a step of either decoder that stores the room record beginning at the cursor
\* in the document, with the record's first 18 integers all in the input
RoomStoredFrom(decoder) ==
    /\ impl = decoder /\ pc = "rooms" /\ m'.Rooms # m.Rooms
    /\ r.off + 4 * (6 + NumExits) <= Len(data)

\* the environment id of the stored room is the integer that follows the id,
\* the area, x, y, z and 12 exit targets of its record
EnvironmentAfterTwelveExits ==
    m'.Rooms[BE32(Bytes(r.off, 4))].Environment
        = BE32(Bytes(r.off + 4 * (5 + NumExits), 4))

\* parser.readRoom reads 12 exit targets
StructRoomsReadTwelveExits ==
    [][RoomStoredFrom("parser") => EnvironmentAfterTwelveExits]_vars

\* C26: for every room record the decoder consumes exactly 12 exit targets
\* between z and the environment id.
C26_TwelveExitTargetsPerRoom ==
    [][(RoomStoredFrom("parser") \/ RoomStoredFrom("legacy"))
           => EnvironmentAfterTwelveExits]_vars

\* parseRooms has stored room 1 with the 16 exit targets it read
C26_Witness ==
    /\ impl = "legacy" /\ pc = "rooms"
    /\ 1 \in DOMAIN m.Rooms
    /\ Len(m.Rooms[1].Exits) = LegacyDirs
    /\ m.Rooms[1].Environment = 2

\* an iteration of either decoder's rooms loop that is followed by another
\* has consumed bytes
RoomsLoopConsumes ==
    [][(impl \in {"parser", "legacy"} /\ pc = "rooms" /\ pc' = "rooms")
           => r'.off > r.off]_vars
----------------------------------------------------------------------------
(* BinaryReader on its own: a caller applying its methods to a stream      *)
(* that starts with a QString length prefix.  m names the last call and    *)
(* where it started, ret holds what it returned.                           *)

QStringPrefixes ==
    { <<255, 255, 255, 255>>, <<255, 255, 255, 254>>, <<255, 255, 255, 253>>,
      <<128, 0, 0, 0>>, <<0, 152, 150, 130>>, <<0, 152, 150, 129>>,
      <<0, 152, 150, 128>>, <<0, 0, 0, 6>>, <<0, 0, 0, 4>>, <<0, 0, 0, 3>>,
      <<0, 0, 0, 2>>, <<0, 0, 0, 1>>, <<0, 0, 0, 0>> }

QStringPayloads ==
    { <<>>, <<0, 65>>, <<0, 65, 1, 66>>, <<216, 61, 222, 0>>, <<216, 61, 0, 65>>,
      <<0, 65, 255, 255, 255, 255, 0, 66>>, <<32, 172, 0, 0, 0, 3, 7>> }

ReaderInputs ==
    UNION {Truncations(p \o d) : p \in QStringPrefixes, d \in QStringPayloads}

Called(op, x) ==
    /\ impl = "reader"
    /\ pc = "ready"
    /\ r' = x.r
    /\ m' = [op |-> op, at |-> r.off, prefix |-> Bytes(r.off, Min(4, Avail(r)))]
    /\ ret' = [m |-> x.v, err |-> IF x.ok THEN NoErr ELSE [sec |-> op, kind |-> x.e]]
    /\ UNCHANGED <<process, impl, data, pc>>

Call_ReadQString == Called("ReadQString", ReadQString(r))

Call_ReadInt32 == Called("ReadInt32", ReadInt32(r))

Call_ReadUInt16 == Called("ReadUInt16", ReadUInt16(r))

Call_ReadByte == Called("ReadByte", ReadByte(r))

\* BinaryReader.ReadString: a length byte, then that many bytes read with
\* io.ReadFull; only the length byte is counted in pos
ReadString(rd) ==
    Bind(ReadByte(rd), LAMBDA n :
        IF ~n.ok THEN Fail(<<>>, n.r, "reading string length")
        ELSE IF n.v = 0 THEN Ok(<<>>, n.r)
        ELSE Bind(ReadFull(n.r, n.v), LAMBDA x :
                IF x.ok THEN Ok(x.v, x.r) ELSE Fail(<<>>, x.r, "reading string data")))

Call_ReadString == Called("ReadString", ReadString(r))

\* the lengths Skip and Peek are called with
ReaderLens == {2, 4}

Call_Skip == \E n \in ReaderLens : Called("Skip", Skip(r, n))

Call_Peek == \E n \in ReaderLens : Called("Peek", Peek(r, n))

InitReader ==
    /\ impl = "reader"
    /\ data \in ReaderInputs
    /\ r = NewBinaryReader
    /\ m = [op |-> "NewBinaryReader", at |-> 0, prefix |-> <<>>]
    /\ pc = "ready"
    /\ ret = [m |-> Nil, err |-> NoErr]
    /\ SingleInvocation

NextReader ==
    \/ Call_ReadQString
    \/ Call_ReadInt32
    \/ Call_ReadUInt16
    \/ Call_ReadByte
    \/ Call_ReadString
    \/ Call_Skip
    \/ Call_Peek

SpecReader == InitReader /\ [][NextReader]_vars

----------------------------------------------------------------------------
(* Properties of BinaryReader.ReadQString, checked under SpecReader        *)

\* the last call was ReadQString and it found a whole 4-byte prefix
QStringCalled == impl = "reader" /\ m.op = "ReadQString" /\ Len(m.prefix) = 4

\* a prefix that is not the null marker and is odd or above 10,000,000
OddOrOverMax(b) ==
    /\ b # <<255, 255, 255, 255>>
    /\ \/ b[4] % 2 = 1
       \/ b[1] > 0
       \/ b[2] * 65536 + b[3] * 256 + b[4] > 10000000

\* C9: ReadQString fails with the invalid-length error, having consumed the
\* 4 prefix bytes and none of the payload, whenever the prefix is not
\* 0xFFFFFFFF and is odd or greater than 10,000,000.
C9_InvalidLengthFailsBeforePayload ==
    (QStringCalled /\ OddOrOverMax(m.prefix)) =>
        /\ ret.err = [sec |-> "ReadQString", kind |-> "invalid QString byte length"]
        /\ ret.m = <<>>
        /\ r.off = m.at + 4

\* an over-long even prefix was rejected with payload bytes still unread
C9_Witness ==
    /\ QStringCalled
    /\ m.prefix = <<0, 152, 150, 130>>
    /\ Avail(r) > 0
    /\ ret.err.kind = "invalid QString byte length"

\* C10: a prefix of 0xFFFFFFFF makes ReadQString return the empty string and
\* no error, having consumed exactly the 4 prefix bytes.
C10_NullMarkerIsEmptyString ==
    (QStringCalled /\ m.prefix = <<255, 255, 255, 255>>) =>
        /\ ret.err = NoErr
        /\ ret.m = <<>>
        /\ r.off = m.at + 4

\* the null marker was read in the middle of a stream, with bytes after it
C10_Witness ==
    /\ QStringCalled
    /\ m.prefix = <<255, 255, 255, 255>>
    /\ m.at > 0
    /\ Avail(r) > 0
    /\ ret.err = NoErr

----------------------------------------------------------------------------
(* parser.readRoom and parser.readAreaData on their own: a parser whose    *)
(* document has its version set is given the bytes of one room or of one   *)
(* area's data.  pc names the call about to be made ("readRoom",           *)
(* "readAreaData") and then what it returned ("room", "area").             *)

\* format versions the record readers are run with
RecordVersions == 1..22

\* a special-exit entry as it is paired on the wire
SX(cmd, dest) == [cmd |-> cmd, dest |-> dest]

\* "0go", "1go", "0up" and "x"
Cmd0go == <<48, 103, 111>>
Cmd1go == <<49, 103, 111>>
Cmd0up == <<48, 117, 112>>
CmdX == <<120>>

\* "xgo" and "0"
CmdXgo == <<120, 103, 111>>
Cmd0 == <<48>>

\* special-exit tables: empty, one entry, two commands, two commands that
\* differ in their first byte only, one command twice, a one-byte command,
\* a command that begins with neither "0" nor "1", a command that is "0" only
ExitLists ==
    { <<>>, <<SX(Cmd0go, 2)>>, <<SX(Cmd0go, 2), SX(Cmd0up, 1)>>,
      <<SX(Cmd0go, 2), SX(Cmd1go, 1)>>, <<SX(Cmd0go, 2), SX(Cmd0go, 1)>>,
      <<SX(CmdX, 2)>>, <<SX(CmdXgo, 2)>>, <<SX(Cmd0, 1)>> }

\* the 12 exit targets of a room: all unset, or some set
ExitSlots ==
    { [i \in 1..NumExits |-> NoExit],
      [i \in 1..NumExits |-> IF i = 3 THEN 2 ELSE IF i = 12 THEN 0 ELSE NoExit] }

RECURSIVE SXBytes(_, _)
SXBytes(version, sx) ==
    IF sx = <<>> THEN <<>>
    ELSE (IF version >= 21 THEN QStr(Head(sx).cmd) \o I32(Head(sx).dest)
          ELSE I32(Head(sx).dest) \o QStr(Head(sx).cmd))
         \o SXBytes(version, Tail(sx))

RECURSIVE I32s(_)
I32s(ns) == IF ns = <<>> THEN <<>> ELSE I32(Head(ns)) \o I32s(Tail(ns))

\* the bytes of a room after its id, as a file of the given version holds
\* them, with a value other than the zero value in every field
RoomBody(version, exits, sx) ==
    I32(3) \o I32(4) \o I32(5) \o I32(6) \o I32s(exits)
        \o I32(2) \o I32(8) \o QStr(<<82>>) \o <<1>>
        \o (IF version >= 6 THEN I32(Len(sx)) \o SXBytes(version, sx) ELSE <<>>)
        \o (IF version >= 19 THEN QStr(<<115>>)
            ELSE IF version >= 9 THEN <<1>> ELSE <<>>)
        \o (IF version >= 21 THEN ColorBytes ELSE <<>>)
        \o (IF version >= 10 THEN I32(1) \o QStr(<<107>>) \o QStr(<<118>>) ELSE <<>>)
        \o (IF version >= 11
            THEN I32(1) \o QStr(<<110>>) \o I32(1) \o Dbl \o Dbl
                 \o I32(1) \o QStr(<<110>>) \o <<1>>
                 \o (IF version >= 20 THEN I32(1) \o QStr(<<110>>) \o ColorBytes
                     ELSE I32(1) \o QStr(<<110>>) \o I32(3) \o I32(1) \o I32(2) \o I32(3))
                 \o (IF version >= 20 THEN I32(1) \o QStr(<<110>>) \o I32(2)
                     ELSE I32(1) \o QStr(<<110>>) \o QStr(<<100>>))
                 \o (IF version >= 21 THEN I32(1) \o QStr(<<103>>) ELSE <<>>)
                 \o I32(1) \o I32(4)
            ELSE <<>>)
        \o (IF version >= 13 THEN I32(1) \o I32(5) ELSE <<>>)
        \o (IF version >= 16
            THEN I32(1) \o QStr(<<110>>) \o I32(9) \o I32(1) \o QStr(<<110>>) \o I32(2)
            ELSE <<>>)

RoomInputs(version) ==
    {RoomBody(version, ex, sx) : ex \in ExitSlots, sx \in ExitLists}

\* parse() has stored the version; the reader is at a room (after its id) or
\* at the data of an area
InitRecord ==
    /\ impl = "parser"
    /\ \E v \in RecordVersions :
          /\ m = [NewMudletMap EXCEPT !.Version = v]
          /\ \/ pc = "readRoom" /\ data \in RoomInputs(v)
             \/ pc = "readAreaData" /\ data = AreaDataBytes(v)
    /\ r = NewBinaryReader
    /\ ret = [m |-> Nil, err |-> NoErr]
    /\ SingleInvocation

Returned(to, x) ==
    /\ r' = x.r
    /\ pc' = to
    /\ ret' = [m |-> x.v, err |-> IF x.ok THEN NoErr ELSE [sec |-> to, kind |-> x.e]]
    /\ UNCHANGED <<process, impl, data, m>>

\* room := p.readRoom(7)
Call_readRoom ==
    /\ pc = "readRoom"
    /\ Returned("room", readRoom(r, m.Version, 7))

\* p.readAreaData(area) on a fresh area
Call_readAreaData ==
    /\ pc = "readAreaData"
    /\ Returned("area", ReadRecord(r, readAreaData_layout(m.Version),
                                   NewMudletArea(7, <<>>)))

NextRecord ==
    \/ Call_readRoom
    \/ Call_readAreaData

SpecRecord == InitRecord /\ [][NextRecord]_vars

----------------------------------------------------------------------------
(* Properties of parser.readRoom and parser.readAreaData, checked under    *)
(* SpecRecord                                                              *)

\* readRoom has returned the room of RoomBody(version, exits, sx)
RoomReturned(version, exits, sx) ==
    /\ pc = "room"
    /\ m.Version = version
    /\ data = RoomBody(version, exits, sx)

\* the command of a wire entry below version 21 without the byte in front
\* of it that says whether the exit is locked
WithoutLock(cmd) == IF Len(cmd) > 1 THEN SubSeq(cmd, 2, Len(cmd)) ELSE cmd

KeyOf(version, cmd) == IF version >= 21 THEN cmd ELSE WithoutLock(cmd)

\* the destination of the last wire entry of sx whose command gives key
LastDest(version, sx, key) ==
    sx[CHOOSE i \in 1..Len(sx) :
          /\ KeyOf(version, sx[i].cmd) = key
          /\ \A j \in (i + 1)..Len(sx) : KeyOf(version, sx[j].cmd) # key].dest

Gated(version, since, value, read, new) ==
    value = IF version >= since THEN read ELSE new

OneEntry(k, v) == MapPut(EmptyMap, k, v)

\* C15: the presence-gated fields take bytes of the stream exactly from their
\* threshold version on: room symbol 9, room user data 10, custom lines and
\* exit locks 11, exit stubs 13, exit weights and doors 16, room symbol colour
\* 21, area last-zoom 21, area-owned labels 21.  A room or an area written with
\* each of these fields present exactly from its threshold is decoded without
\* error to its last byte, and each field holds the written value from its
\* threshold on and the value of a new record below it.
C15_GatedFieldsFollowThresholds ==
    /\ pc = "room" =>
          /\ ret.err = NoErr /\ r.off = Len(data)
          /\ Gated(m.Version, 19, ret.m.Symbol, <<115>>, <<>>)
          /\ (ret.m.SymbolColor # Nil) <=> (m.Version >= 21)
          /\ Gated(m.Version, 10, ret.m.UserData, OneEntry(<<107>>, <<118>>), EmptyMap)
          /\ Gated(m.Version, 11, DOMAIN ret.m.CustomLines, {<<110>>}, {})
          /\ Gated(m.Version, 11, ret.m.ExitLocks, <<4>>, <<>>)
          /\ Gated(m.Version, 21, ret.m.SpecialExitLocks, <<(<<103>>)>>, <<>>)
          /\ Gated(m.Version, 13, ret.m.ExitStubs, <<5>>, <<>>)
          /\ Gated(m.Version, 16, ret.m.ExitWeights, OneEntry(<<110>>, 9), EmptyMap)
          /\ Gated(m.Version, 16, ret.m.Doors, OneEntry(<<110>>, 2), EmptyMap)
    /\ pc = "area" =>
          /\ ret.err = NoErr /\ r.off = Len(data)
          /\ Gated(m.Version, 21, ret.m.Last2DMapZoom, Dbl, ZeroDouble)
          /\ Gated(m.Version, 21, Len(ret.m.Labels), 2, 0)

\* a version-15 room was decoded: its exit stubs were read, its exit weights
\* and doors were not
C15_Witness ==
    /\ pc = "room" /\ m.Version = 15 /\ ret.err = NoErr
    /\ ret.m.ExitStubs = <<5>>
    /\ ret.m.ExitWeights = EmptyMap
    /\ r.off = Len(data)

\* C16: a room whose 12 standard exits are all unset on the wire is decoded
\* with each of its 12 exit slots equal to -1, never zero or another room id.
C16_UnsetExitsAreMinusOne ==
    \A v \in RecordVersions : \A sx \in ExitLists :
        RoomReturned(v, [i \in 1..NumExits |-> NoExit], sx) =>
            /\ ret.err = NoErr
            /\ DOMAIN ret.m.Exits = 1..12
            /\ \A i \in 1..12 : ret.m.Exits[i] = -1

\* a version-20 room without exits was decoded
C16_Witness ==
    /\ RoomReturned(20, [i \in 1..NumExits |-> NoExit], <<SX(Cmd0go, 2)>>)
    /\ ret.err = NoErr
    /\ ret.m.Exits[1] = NoExit /\ ret.m.Exits[12] = NoExit


\* a command that begins with the lock byte "0" or "1"
LockPrefixed(cmd) == cmd # <<>> /\ cmd[1] \in {48, 49}

WithoutLockPrefix(cmd) == IF LockPrefixed(cmd) THEN Tail(cmd) ELSE cmd

\* commands of two bytes or more that begin with a lock byte are keyed
\* without it
LockPrefixRemovedFromLongCommands ==
    \A v \in 6..20 : \A ex \in ExitSlots : \A sx \in ExitLists :
        (RoomReturned(v, ex, sx)
            /\ \A i \in 1..Len(sx) : LockPrefixed(sx[i].cmd) /\ Len(sx[i].cmd) > 1) =>
                DOMAIN ret.m.SpecialExits =
                    {WithoutLockPrefix(sx[i].cmd) : i \in 1..Len(sx)}

\* C27: in versions 6 to 20 the key of a special exit is its wire command
\* without the leading lock byte "0" or "1", and with nothing else removed,
\* whatever the command: one byte long, or not beginning with "0" or "1".
C27_KeyIsCommandWithoutLockPrefix ==
    \A v \in 6..20 : \A ex \in ExitSlots : \A sx \in ExitLists :
        RoomReturned(v, ex, sx) =>
            DOMAIN ret.m.SpecialExits =
                {WithoutLockPrefix(sx[i].cmd) : i \in 1..Len(sx)}

\* a version-20 room with the entry (2, "xgo") was decoded and is keyed "go"
C27_Witness ==
    /\ \E ex \in ExitSlots : RoomReturned(20, ex, <<SX(CmdXgo, 2)>>)
    /\ ret.err = NoErr
    /\ DOMAIN ret.m.SpecialExits = {<<103, 111>>}
----------------------------------------------------------------------------
(* main (cmd/mapsnap/main.go): the parse under a timeout                   *)
(*                                                                         *)
(* Two goroutines.  pc is the position of the one that parses ("go",       *)
(* "ParseMapFile", "send", "sent") and ret what ParseMapFile returned to   *)
(* it.  cli is main and the process around it:                             *)
(*   timeout  the -timeout flag, in seconds      now   seconds gone by     *)
(*   ctx      "live" or "done"                   pc    main's position     *)
(*   case     the case its select took           m, err  main's variables  *)
(*   out      the lines printed                  exit  the exit status     *)
(*   first    which came first: the deadline or the return of ParseMapFile *)
(* resultCh is unbuffered: a send and the receive of the select are one    *)
(* step.  os.Exit ends the process and every goroutine in it.              *)

\* largest -timeout value
MaxTimeout == 2

\* what ParseMapFile can return: a document, or nil and an error
ParseResults ==
    { [m |-> NewLegacyMap, err |-> NoErr],
      [m |-> [NewLegacyMap EXCEPT !.Header.Version = 20], err |-> NoErr],
      [m |-> Nil, err |-> [sec |-> "opening map file", kind |-> "no such file"]] }

InitCLI ==
    /\ impl = "cli"
    /\ data = <<>>
    /\ r = NewBinaryReader
    /\ m = Nil
    /\ pc = "go"
    /\ ret = [m |-> Nil, err |-> NoErr]
    /\ \E t \in 0..MaxTimeout :
          cli = [timeout |-> t, now |-> 0,
                 ctx |-> IF t <= 0 THEN "done" ELSE "live",
                 pc |-> "select", case |-> "", m |-> Nil, err |-> NoErr,
                 out |-> <<>>, exit |-> -1,
                 first |-> IF t <= 0 THEN "deadline" ELSE ""]
    /\ other = Nil
    /\ labelDebugCount = 0

\* os.Exit has not been called
Alive == cli.exit = -1

\* case result := <-resultCh: m = result.m; err = result.err
Receive(c) == [c EXCEPT !.case = "result", !.m = ret.m, !.err = ret.err,
                        !.pc = "checkErr"]

\* case <-ctx.Done()
Done(c) == [c EXCEPT !.case = "deadline", !.pc = "ctxDone"]

\* go func() { fmt.Printf("Parsing map file: ...")
Worker_start ==
    /\ Alive /\ pc = "go"
    /\ pc' = "ParseMapFile"
    /\ cli' = [cli EXCEPT !.out = Append(@, "Parsing map file")]
    /\ UNCHANGED <<impl, data, r, m, ret, other, labelDebugCount>>

\* m, err := mapparser.ParseMapFile(*mapFile)
Worker_ParseMapFile ==
    /\ Alive /\ pc = "ParseMapFile"
    /\ \E res \in ParseResults : ret' = res
    /\ pc' = "send"
    /\ cli' = [cli EXCEPT !.first = IF @ = "" THEN "result" ELSE @]
    /\ UNCHANGED <<impl, data, r, m, other, labelDebugCount>>

\* resultCh <- struct{...}{m, err}, taken by main waiting in its select
Worker_send ==
    /\ Alive /\ pc = "send" /\ cli.pc = "parked"
    /\ pc' = "sent"
    /\ cli' = Receive(cli)
    /\ UNCHANGED <<impl, data, r, m, ret, other, labelDebugCount>>

\* the communications main's select can proceed with
Ready ==
    {c \in {"result", "deadline"} :
        \/ c = "result" /\ pc = "send"
        \/ c = "deadline" /\ cli.ctx = "done"}

\* select { case result := <-resultCh: ... case <-ctx.Done(): ... }: one of
\* the cases that can proceed is taken, else main waits
Main_select ==
    /\ Alive /\ cli.pc = "select"
    /\ IF Ready = {}
       THEN /\ cli' = [cli EXCEPT !.pc = "parked"]
            /\ pc' = pc
       ELSE \E c \in Ready :
               IF c = "result"
               THEN cli' = Receive(cli) /\ pc' = "sent"
               ELSE cli' = Done(cli) /\ pc' = pc
    /\ UNCHANGED <<impl, data, r, m, ret, other, labelDebugCount>>

\* the deadline passes: the context is done, which wakes main when it waits
\* in its select
Expire(c) ==
    [c EXCEPT !.ctx = "done",
              !.first = IF @ = "" THEN "deadline" ELSE @,
              !.case = IF c.pc = "parked" THEN "deadline" ELSE @,
              !.pc = IF c.pc = "parked" THEN "ctxDone" ELSE @]

\* a second goes by
Tick ==
    /\ Alive /\ cli.ctx = "live"
    /\ \E c \in {[cli EXCEPT !.now = @ + 1]} :
          cli' = IF c.now < c.timeout THEN c ELSE Expire(c)
    /\ UNCHANGED <<impl, data, r, m, pc, ret, other, labelDebugCount>>

\* fmt.Println("Error: Parsing operation timed out. ...")
Main_timeout ==
    /\ Alive /\ cli.pc = "ctxDone"
    /\ cli' = [cli EXCEPT !.out = Append(@, "Error: Parsing operation timed out"),
                          !.pc = "exit"]
    /\ UNCHANGED <<impl, data, r, m, pc, ret, other, labelDebugCount>>

\* if err != nil { fmt.Printf("Error parsing map file: ..."); os.Exit(1) }
\* fmt.Printf("Map parsed successfully. ...")
Main_checkErr ==
    /\ Alive /\ cli.pc = "checkErr"
    /\ cli' = IF cli.err # NoErr
              THEN [cli EXCEPT !.out = Append(@, "Error parsing map file"),
                               !.pc = "exit"]
              ELSE [cli EXCEPT !.out = Append(@, "Map parsed successfully"),
                               !.pc = "parsed"]
    /\ UNCHANGED <<impl, data, r, m, pc, ret, other, labelDebugCount>>

\* os.Exit(1)
Main_exit ==
    /\ Alive /\ cli.pc = "exit"
    /\ cli' = [cli EXCEPT !.exit = 1, !.pc = "exited"]
    /\ UNCHANGED <<impl, data, r, m, pc, ret, other, labelDebugCount>>

NextCLI ==
    \/ Worker_start
    \/ Worker_ParseMapFile
    \/ Worker_send
    \/ Main_select
    \/ Tick
    \/ Main_timeout
    \/ Main_checkErr
    \/ Main_exit

SpecCLI == InitCLI /\ [][NextCLI]_vars

----------------------------------------------------------------------------
(* Properties of main's select, checked under SpecCLI                      *)

Printed(line) == \E i \in 1..Len(cli.out) : cli.out[i] = line

TimeoutReported == Printed("Error: Parsing operation timed out")

\* main has taken a result off resultCh
ResultTaken == cli.case = "result"

\* main acts on one outcome only: after the deadline case nothing of a result
\* is in its variables or its output, and after a result no timeout is reported
OneOutcome ==
    /\ cli.case = "deadline" =>
          /\ cli.m = Nil /\ cli.err = NoErr
          /\ ~Printed("Error parsing map file")
          /\ ~Printed("Map parsed successfully")
    /\ ResultTaken => ~TimeoutReported /\ cli.m = ret.m /\ cli.err = ret.err

\* after the deadline case main exits with status 1 whatever the parse does
TimeoutExits == (cli.case = "deadline" /\ cli.pc = "exited") =>
                    cli.exit = 1 /\ TimeoutReported

\* once the process has exited nothing changes any more
ExitIsFinal == [][~Alive => UNCHANGED vars]_vars

\* C17: main acts on exactly one of the parse's result and the deadline; when
\* the deadline elapses before ParseMapFile has returned, main takes no result:
\* it reports the timeout and exits with status 1 without waiting for the
\* parse, whose result is never used.
C17_DeadlineFirstAbandonsParse ==
    /\ OneOutcome
    /\ TimeoutExits
    /\ cli.first = "deadline" => ~ResultTaken

\* the deadline elapsed while the parse was running, ParseMapFile returned
\* before main's select looked at its channels, and main went on with the
\* result
C17_Witness ==
    /\ cli.first = "deadline" /\ cli.ctx = "done"
    /\ ResultTaken /\ cli.pc = "parsed" /\ cli.m # Nil
    /\ ~TimeoutReported


\* a result that main is parked waiting for when ParseMapFile returns, and
\* that is sent before another second goes by, is taken
ParkedMainTakesResult ==
    [][(impl = "cli" /\ Worker_send) => (cli'.case = "result" /\ ~TimeoutReported')]_vars

\* C29: when ParseMapFile has returned and its goroutine stands at the send of
\* the result before the deadline elapses, main goes on with that result and
\* never reports a timeout.
C29_ResultFirstNeverTimesOut ==
    (impl = "cli" /\ cli.first = "result") => cli.case # "deadline" /\ ~TimeoutReported

\* ParseMapFile returned before the deadline, the deadline elapsed before the
\* result was received, and main reported the timeout and exited
C29_Witness ==
    /\ impl = "cli" /\ cli.first = "result"
    /\ cli.case = "deadline" /\ TimeoutReported
    /\ cli.exit = 1
    /\ cli.m = Nil
----------------------------------------------------------------------------
(* examineMudletLabel (the examiner's walk over labels) in two invocations *)
(* that run in one process.                                                *)
(*                                                                         *)
(* The running invocation is in data, r, m, pc and ret: data its stream, r *)
(* its reader, m its locals (total labels to walk, labels left, tmp the    *)
(* counter value loaded by labelDebugCount++), pc its position in          *)
(* examineMudletLabel, ret.m the lines it has printed.  The invocation     *)
(* that is not running is kept in other.  labelDebugCount is the one       *)
(* package-level variable, read and written by both without a lock: its    *)
(* increment is a load and a store, and a step makes one access to it.     *)

\* labels in the stream of an invocation
MaxLabels == 2

\* a line of the report: what it is about, the text if any, r.Position()
Line(what, text, rd) == <<what, text, rd.pos>>

\* the line printed when the counter allows it and 8 bytes can be peeked
PeekLine(what, rd, allowed, out) ==
    IF allowed /\ Len(Peek(rd, 8).v) = 8 THEN Append(out, Line(what, <<>>, rd))
    ELSE out

\* examineMudletLabel up to the text: an int32 and seven doubles, then the
\* "pre-QString" line while labelDebugCount < 3
examineLabel_head(rd, count, out) ==
    Bind(ReadRecord(rd, <<F("_", <<"int32">>)>> \o [i \in 1..7 |-> F("_", <<"double">>)],
                    Nil), LAMBDA x :
        IF ~x.ok THEN Fail(out, x.r, x.e)
        ELSE Ok(PeekLine("pre-QString", x.r, count < 3, out), x.r))

\* str, err := r.ReadQString(), then the "label text" line while
\* labelDebugCount < 3
examineLabel_text(rd, count, out) ==
    Bind(ReadQString(rd), LAMBDA x :
        IF ~x.ok THEN Fail(out, x.r, x.e)
        ELSE Ok(IF count < 3 THEN Append(out, Line("label text", x.v, x.r)) ELSE out,
                x.r))

\* the rest of examineMudletLabel: two colours, the pixmap marker (its error
\* dropped), the image when the signature is there, two bools, then the
\* "after-label" line while labelDebugCount <= 3
examineLabel_tail(rd, count, out) ==
    Bind(ReadRecord(rd, <<F("_", <<"qcolor">>), F("_", <<"qcolor">>)>>, Nil), LAMBDA c :
        IF ~c.ok THEN Fail(out, c.r, c.e)
        ELSE Bind(ReadUInt32(c.r).r, LAMBDA r1 :
             Bind(IF Len(Peek(r1, 4).v) = 4 /\ IsPNG(Peek(r1, 4).v)
                  THEN skipPNG(r1) ELSE Ok(<<>>, r1), LAMBDA p :
                IF ~p.ok THEN Fail(out, p.r, p.e)
                ELSE Bind(ReadRecord(p.r, <<F("_", <<"bool">>), F("_", <<"bool">>)>>, Nil),
                          LAMBDA b :
                        IF ~b.ok THEN Fail(out, b.r, b.e)
                        ELSE Ok(PeekLine("after-label", b.r, count <= 3, out), b.r)))))

\* streams of the examiner: 1..MaxLabels labels, the last with an image, with
\* the bytes of the next section after them, and such a stream cut short
RECURSIVE ExamineLabels(_)
ExamineLabels(n) ==
    IF n <= 1 THEN LabelBytes(1, FALSE, TRUE)
    ELSE LabelBytes(n, FALSE, FALSE) \o ExamineLabels(n - 1)

ExamineInputs ==
    {[d |-> ExamineLabels(n) \o Rep(2, I32(7)), total |-> n] : n \in 1..MaxLabels}
        \cup {[d |-> SubSeq(ExamineLabels(1), 1, 70), total |-> 1]}

\* an invocation about to walk the labels of input x
NewExamine(x) ==
    [data |-> x.d, r |-> NewBinaryReader,
     m |-> [total |-> x.total, left |-> x.total, tmp |-> 0],
     pc |-> IF x.total > 0 THEN "head" ELSE "returned",
     ret |-> [m |-> <<>>, err |-> NoErr]]

InitExamine ==
    /\ impl = "examine"
    /\ \E x \in ExamineInputs, y \in ExamineInputs :
          /\ data = NewExamine(x).data /\ r = NewExamine(x).r /\ m = NewExamine(x).m
          /\ pc = NewExamine(x).pc /\ ret = NewExamine(x).ret
          /\ other = NewExamine(y)
    /\ labelDebugCount = 0
    /\ cli = Nil

\* a step x of examineMudletLabel: on an error the walk returns it, else it
\* goes on at position to with m1 for its locals
Examined(x, to, m1) ==
    /\ r' = x.r
    /\ ret' = [m |-> x.v, err |-> IF x.ok THEN NoErr ELSE [sec |-> pc, kind |-> x.e]]
    /\ pc' = IF x.ok THEN to ELSE "returned"
    /\ m' = m1
    /\ UNCHANGED <<impl, data, cli, other>>

Examine_head ==
    /\ pc = "head"
    /\ Examined(examineLabel_head(r, labelDebugCount, ret.m), "text", m)
    /\ UNCHANGED labelDebugCount

Examine_text ==
    /\ pc = "text"
    /\ Examined(examineLabel_text(r, labelDebugCount, ret.m), "load", m)
    /\ UNCHANGED labelDebugCount

\* labelDebugCount++, the load
Examine_load ==
    /\ pc = "load"
    /\ m' = [m EXCEPT !.tmp = labelDebugCount]
    /\ pc' = "store"
    /\ UNCHANGED <<impl, data, r, ret, cli, other, labelDebugCount>>

\* labelDebugCount++, the store
Examine_store ==
    /\ pc = "store"
    /\ labelDebugCount' = m.tmp + 1
    /\ pc' = "tail"
    /\ UNCHANGED <<impl, data, r, m, ret, cli, other>>

\* the rest of the label; then the caller's loop calls again or is done
Examine_tail ==
    /\ pc = "tail"
    /\ Examined(examineLabel_tail(r, labelDebugCount, ret.m),
                IF m.left > 1 THEN "head" ELSE "returned",
                [m EXCEPT !.left = @ - 1])
    /\ UNCHANGED labelDebugCount

\* the scheduler runs the other invocation
Switch ==
    /\ other # Nil
    /\ data' = other.data /\ r' = other.r /\ m' = other.m
    /\ pc' = other.pc /\ ret' = other.ret
    /\ other' = [data |-> data, r |-> r, m |-> m, pc |-> pc, ret |-> ret]
    /\ UNCHANGED <<impl, cli, labelDebugCount>>

NextExamine ==
    \/ Examine_head
    \/ Examine_text
    \/ Examine_load
    \/ Examine_store
    \/ Examine_tail
    \/ Switch

SpecExamine == InitExamine /\ [][NextExamine]_vars

----------------------------------------------------------------------------
(* Properties of concurrent invocations, checked under SpecExamine         *)

\* the report and error of a walk over left labels from rd that has the
\* counter, at value count, to itself
RECURSIVE ExamineAlone(_, _, _, _)
ExamineAlone(rd, left, count, out) ==
    IF left = 0 THEN [m |-> out, err |-> NoErr]
    ELSE Bind(examineLabel_head(rd, count, out), LAMBDA h :
         IF ~h.ok THEN [m |-> h.v, err |-> [sec |-> "head", kind |-> h.e]]
         ELSE Bind(examineLabel_text(h.r, count, h.v), LAMBDA t :
         IF ~t.ok THEN [m |-> t.v, err |-> [sec |-> "text", kind |-> t.e]]
         ELSE Bind(examineLabel_tail(t.r, count + 1, t.v), LAMBDA l :
         IF ~l.ok THEN [m |-> l.v, err |-> [sec |-> "tail", kind |-> l.e]]
         ELSE ExamineAlone(l.r, left - 1, count + 1, l.v))))

\* C18: every variable a walk over a stream changes belongs to its invocation,
\* so an invocation that runs while another one does returns what it returns
\* when it runs alone: the same report and the same error.
C18_ConcurrentResultAsAlone ==
    pc = "returned" => ret = ExamineAlone(NewBinaryReader, m.total, 0, <<>>)

\* both invocations have returned without error and this one's report is
\* shorter than the report it prints alone
C18_Witness ==
    /\ pc = "returned" /\ other.pc = "returned"
    /\ ret.err = NoErr /\ other.ret.err = NoErr
    /\ Len(ret.m) < Len(ExamineAlone(NewBinaryReader, m.total, 0, <<>>).m)

----------------------------------------------------------------------------
(* MudletMap.GetLabelsForArea on its own: m is a document, data the        *)
(* argument of the call, ret.m what the call returned                      *)

LabelOf(id) == [ZeroLabel EXCEPT !.ID = id]

\* documents of every version: area 1 absent, without labels or with one
\* label of its own; a map-level entry for area 1 or none
QueryDocs ==
    { [NewMudletMap EXCEPT !.Version = v, !.Areas = as, !.Labels = ls] :
        v \in RecordVersions,
        as \in { EmptyMap,
                 OneEntry(1, NewMudletArea(1, <<65>>)),
                 OneEntry(1, [NewMudletArea(1, <<65>>) EXCEPT !.Labels = <<LabelOf(3)>>]) },
        ls \in { EmptyMap, OneEntry(1, <<LabelOf(1), LabelOf(2)>>) } }

InitQuery ==
    /\ impl = "parser"
    /\ m \in QueryDocs
    /\ data \in {<<1>>, <<999>>}
    /\ r = NewBinaryReader
    /\ pc = "GetLabelsForArea"
    /\ ret = [m |-> Nil, err |-> NoErr]
    /\ SingleInvocation

\* labels := m.GetLabelsForArea(areaID)
Call_GetLabelsForArea ==
    /\ pc = "GetLabelsForArea"
    /\ ret' = [m |-> GetLabelsForArea(m, data[1]), err |-> NoErr]
    /\ pc' = "labels returned"
    /\ UNCHANGED <<process, impl, data, r, m>>

NextQuery == Call_GetLabelsForArea

SpecQuery == InitQuery /\ [][NextQuery]_vars

\* the labels the area with this id owns, and the map-level entry for the id
AreaOwned(id) == IF id \in DOMAIN m.Areas THEN m.Areas[id].Labels ELSE <<>>
MapLevel(id) == IF id \in DOMAIN m.Labels THEN m.Labels[id] ELSE <<>>

\* C20 as stated: the query returns the area-owned list when the version is at
\* least 21 and the map-level entry for the area id otherwise.
C20_LabelsChosenByVersion ==
    pc = "labels returned" =>
        ret.m = IF m.Version >= 21 THEN AreaOwned(data[1]) ELSE MapLevel(data[1])

\* C20, amended: whatever the version, the query returns the area-owned list
\* when the area exists and owns at least one label, and the map-level entry
\* for the area id (empty when there is none) otherwise.
C20_LabelsChosenByPresence ==
    pc = "labels returned" =>
        /\ AreaOwned(data[1]) # <<>> => ret.m = AreaOwned(data[1])
        /\ AreaOwned(data[1]) = <<>> => ret.m = MapLevel(data[1])

\* a version-20 document whose area 1 owns a label and has a map-level entry
\* too: the query returned the area's own label
C20_Witness ==
    /\ pc = "labels returned" /\ m.Version = 20 /\ data = <<1>>
    /\ MapLevel(1) # <<>>
    /\ ret.m = <<LabelOf(3)>>

----------------------------------------------------------------------------
(* ValidateMap (pkg/mapparser/utils.go) on its own: m is the document it   *)
(* is given (Nil for a nil map), ret.m the report it returned.  The report *)
(* is appended to in the iteration order of a Go map, which is not fixed:  *)
(* it is kept as the set of its entries.                                   *)

ValidationError(type, message, roomID) ==
    [Type |-> type, Message |-> message, RoomID |-> roomID]

\* ValidateMap
ValidateMap(doc) ==
    IF doc = Nil THEN {ValidationError("nil_map", <<"map is nil">>, 0)}
    ELSE (IF doc.Version <= 0
          THEN {ValidationError("invalid_version", <<"non-positive version", doc.Version>>, 0)}
          ELSE {})
         \cup
         { ValidationError("broken_exit",
                           <<"exit to missing room", i, doc.Rooms[id].Exits[i]>>,
                           doc.Rooms[id].ID) :
             <<id, i>> \in
                 { x \in (DOMAIN doc.Rooms) \X (1..NumExits) :
                     /\ doc.Rooms[x[1]].Exits[x[2]] # NoExit
                     /\ doc.Rooms[x[1]].Exits[x[2]] \notin DOMAIN doc.Rooms } }

\* a room in an area, with one exit slot set to a target
RoomWith(id, area, slot, target) ==
    [NewMudletRoom(id) EXCEPT !.Area = area, !.Exits[slot] = target]

\* documents with area 1 only: room 1, and room 2 or not, each in area 1 or
\* in an area that does not exist, with an exit that is unset, leads to a
\* room of the document or leads to a missing room (999, 0)
ValidateDocs ==
    { [NewMudletMap EXCEPT !.Version = v,
                           !.Areas = OneEntry(1, NewMudletArea(1, <<65>>)),
                           !.Rooms = rs] :
        v \in {0, 20},
        rs \in { OneEntry(1, r1) : r1 \in { RoomWith(1, a, 1, t) :
                                             a \in {1, 5}, t \in {NoExit, 1, 999, 0} } }
               \cup
               { MapPut(OneEntry(1, r1), 2, r2) :
                   r1 \in { RoomWith(1, a, 1, t) : a \in {1, 5}, t \in {NoExit, 2, 999, 0} },
                   r2 \in { RoomWith(2, a, 12, t) : a \in {1, 5}, t \in {NoExit, 1, 999} } } }
        \cup {Nil}

InitValidate ==
    /\ impl = "parser"
    /\ m \in ValidateDocs
    /\ data = <<>>
    /\ r = NewBinaryReader
    /\ pc = "ValidateMap"
    /\ ret = [m |-> Nil, err |-> NoErr]
    /\ SingleInvocation

\* errors := mapparser.ValidateMap(m)
Call_ValidateMap ==
    /\ pc = "ValidateMap"
    /\ ret' = [m |-> ValidateMap(m), err |-> NoErr]
    /\ pc' = "validated"
    /\ UNCHANGED <<process, impl, data, r, m>>

NextValidate == Call_ValidateMap

SpecValidate == InitValidate /\ [][NextValidate]_vars

\* the exits of the document that lead to a room it does not hold, and the
\* rooms whose area it does not hold
DanglingExits ==
    { x \in (DOMAIN m.Rooms) \X (1..NumExits) :
        /\ m.Rooms[x[1]].Exits[x[2]] # NoExit
        /\ m.Rooms[x[1]].Exits[x[2]] \notin DOMAIN m.Rooms }

RoomsWithoutArea == { id \in DOMAIN m.Rooms : m.Rooms[id].Area \notin DOMAIN m.Areas }

\* the report has an entry about the exit in slot i of room id
ExitReported(id, i) ==
    \E e \in ret.m : e.Type = "broken_exit" /\ e.RoomID = id /\ e.Message[2] = i

\* the report has an entry about room id that is not about one of its exits
RoomReported(id) ==
    \E e \in ret.m : e.RoomID = id /\ e.Type \notin {"broken_exit", "invalid_version", "nil_map"}

\* validation leaves the document as it was
ValidateLeavesDocument == [][pc = "ValidateMap" => m' = m]_vars

\* every dangling exit of the document is in the report
DanglingExitsReported ==
    (pc = "validated" /\ m # Nil) => \A x \in DanglingExits : ExitReported(x[1], x[2])

\* C21: the report of a validation has an entry for every dangling reference
\* of the document: for every exit that is not the no-exit value and leads to
\* a room the document does not hold, and for every room whose area the
\* document does not hold.
C21_ReportHasEveryDanglingReference ==
    (pc = "validated" /\ m # Nil) =>
        /\ \A x \in DanglingExits : ExitReported(x[1], x[2])
        /\ \A id \in RoomsWithoutArea : RoomReported(id)

\* a version-20 document whose room 1 is in an area that does not exist and
\* has no dangling exit was validated: the report is empty
C21_Witness ==
    /\ pc = "validated" /\ m # Nil
    /\ m.Version = 20
    /\ 1 \in RoomsWithoutArea
    /\ DanglingExits = {}
    /\ ret.m = {}

----------------------------------------------------------------------------
(* A parse in a process whose environment holds MAPSNAP_SKIP_LABELS: cli   *)
(* is the environment of the process, the rest is as in Spec.  Neither     *)
(* decoder calls os.Getenv for this name, so no action reads cli.          *)

InitEnv ==
    /\ \/ impl = "parser" /\ data \in {MapFile(v) : v \in Versions}
       \/ impl = "legacy" /\ data \in {LegacyMapFile}
    /\ r = NewBinaryReader
    /\ m = IF impl = "parser" THEN NewMudletMap ELSE NewLegacyMap
    /\ pc = "version"
    /\ ret = [m |-> Nil, err |-> NoErr]
    /\ \E v \in {"", "1"} : cli = [env |-> [MAPSNAP_SKIP_LABELS |-> v]]
    /\ other = Nil
    /\ labelDebugCount = 0

SpecEnv == InitEnv /\ [][Next]_vars

SkipLabelsSet == cli.env.MAPSNAP_SKIP_LABELS = "1"

\* the labels the decoder has put into its document
LabelsDecoded == IF impl = "parser" THEN m.Labels # EmptyMap ELSE m.Labels # <<>>

\* C22: with MAPSNAP_SKIP_LABELS=1 the decoder decodes no label of the Labels
\* section: it reads the section's count fields only and goes on to the rooms,
\* which it decodes.
C22_SkipLabelsDecodesNoLabel ==
    SkipLabelsSet =>
        /\ ~LabelsDecoded
        /\ pc = "done" => (ret.err = NoErr /\ ret.m.Rooms # EmptyMap)

\* with MAPSNAP_SKIP_LABELS=1 the struct-based decoder has decoded the two
\* labels of a version-20 file and is at its rooms
C22_Witness ==
    /\ SkipLabelsSet /\ impl = "parser" /\ data = MapFile(20)
    /\ pc = "rooms"
    /\ 1 \in DOMAIN m.Labels /\ Len(m.Labels[1]) = 2

----------------------------------------------------------------------------
(* SpecScan: skipToRoomsHeuristic called on its own, on every byte string   *)
(* of zeros and ones up to ScanLen bytes, from every start within           *)
(* ScanStarts and with every set of known areas in ScanAreas.               *)

ScanLen == 10

ScanStarts == 0..2

\* known area ids: 1 is the bytes 0 0 0 1, 256 the bytes 0 0 1 0
ScanAreas == {{}, {1}, {1, 256}}

ScanInputs == UNION {[1..n -> {0, 1}] : n \in (ScanLen - 3)..ScanLen}

InitScan ==
    /\ impl = "scan"
    /\ data \in ScanInputs
    /\ \E start \in ScanStarts : r = Advance(NewBinaryReader, start)
    /\ \E known \in ScanAreas : m = [Areas |-> [a \in known |-> NewMudletArea(a, <<>>)]]
    /\ pc = "skipToRoomsHeuristic"
    /\ ret = [start |-> r.off, ok |-> FALSE, e |-> ""]
    /\ SingleInvocation

Call_skipToRoomsHeuristic ==
    /\ impl = "scan" /\ pc = "skipToRoomsHeuristic"
    /\ \E x \in {skipToRoomsHeuristic(r, m.Areas)} :
           /\ r' = x.r
           /\ ret' = [ret EXCEPT !.ok = x.ok, !.e = x.e]
    /\ pc' = "scanned"
    /\ UNCHANGED <<process, impl, data, m>>

NextScan == Call_skipToRoomsHeuristic

SpecScan == InitScan /\ [][NextScan]_vars

\* the 8 bytes at offset i read as a positive room id and a known area id
RoomStartAt(i) ==
    /\ i + 8 <= Len(data)
    /\ BE32([k \in 1..4 |-> data[i + k]]) > 0
    /\ BE32([k \in 1..4 |-> data[i + 4 + k]]) \in DOMAIN m.Areas

\* C24: the scan returns successfully only with the cursor at the first
\* position, at or after the start, whose next 8 bytes read as a positive
\* room id followed by the id of a known area.
C24_ScanStopsAtFirstRoomStart ==
    (impl = "scan" /\ pc = "scanned" /\ ret.ok) =>
        /\ r.off >= ret.start
        /\ RoomStartAt(r.off)
        /\ \A j \in ret.start..(r.off - 1) : ~RoomStartAt(j)

\* a scan that passed over bytes and stopped at an offset that is no multiple
\* of four from its start, with a later room start left unvisited
C24_Witness ==
    /\ impl = "scan" /\ pc = "scanned" /\ ret.ok
    /\ r.off = ret.start + 1
    /\ RoomStartAt(r.off + 1)

\* the scan fails exactly when no room start lies at or after its start
ScanFailsOnlyWithoutRoomStart ==
    (impl = "scan" /\ pc = "scanned" /\ ~ret.ok) =>
        /\ ret.e = "EOF before rooms"
        /\ \A j \in ret.start..Len(data) : ~RoomStartAt(j)

----------------------------------------------------------------------------
(* The reader's position (SpecReader)                                      *)

\* the position never runs ahead of the bytes taken from the stream
PositionNeverAhead == impl = "reader" => r.pos <= r.off

\* Peek changes neither the position nor the stream
PeekLeavesPosition ==
    [][(impl = "reader" /\ m'.op = "Peek" /\ m' # m) => r' = r]_vars

\* C25: after any sequence of reads and skips, failed or not, Position() is
\* the number of bytes consumed from the stream since the reader was made.
C25_PositionIsBytesConsumed == impl = "reader" => r.pos = r.off

\* a ReadInt32 that failed on a short rest of the stream: the rest was taken
\* from the stream and the position stayed
C25_Witness ==
    /\ impl = "reader" /\ m.op = "ReadInt32" /\ ret.err # NoErr
    /\ r.off = Len(data)
    /\ r.pos < r.off

----------------------------------------------------------------------------
(* SpecColor: the renderer's room colour (envToColor, Renderer.getEnvColor) *)
(* for the environment ids in ColorEnvs, with every set of custom colours   *)
(* over CustomIds and the environment mappings in EnvMappings.  `data` is   *)
(* the argument <<env>>, `m` the document, `ret.m` the colour returned.     *)

RGBA(red, green, blue, alpha) == <<red, green, blue, alpha>>

\* the 16 default colours, for the environment ids 1..16
defaultEnvironmentColors ==
    << RGBA(128, 0, 0, 255), RGBA(0, 128, 0, 255), RGBA(128, 128, 0, 255),
       RGBA(0, 0, 128, 255), RGBA(128, 0, 128, 255), RGBA(0, 128, 128, 255),
       RGBA(192, 192, 192, 255), RGBA(64, 64, 64, 255), RGBA(255, 0, 0, 255),
       RGBA(0, 255, 0, 255), RGBA(255, 255, 0, 255), RGBA(0, 0, 255, 255),
       RGBA(255, 0, 255, 255), RGBA(0, 255, 255, 255), RGBA(255, 255, 255, 255),
       RGBA(128, 128, 128, 255) >>

\* one component of the 6x6x6 colour cube
CubeLevel(k) == IF k = 0 THEN 0 ELSE ((k - 1) * 40 + 95) % 256

envToColor(env, customColors, defaultColors) ==
    IF env \in DOMAIN defaultColors THEN defaultColors[env]
    ELSE IF env \in DOMAIN customColors THEN customColors[env]
    ELSE IF env >= 16 /\ env < 232
    THEN LET base == env - 16
             rr == base \div 36
             gg == (base - rr * 36) \div 6
             bb == base - rr * 36 - gg * 6
         IN  RGBA(CubeLevel(rr), CubeLevel(gg), CubeLevel(bb), 255)
    ELSE IF env >= 232 /\ env < 256
    THEN LET k == ((env - 232) * 10 + 8) % 256 IN RGBA(k, k, k, 255)
    ELSE RGBA(128, 128, 128, 255)

\* Renderer.getEnvColor: the id is first mapped through the document's
\* EnvColors; an id with neither a default nor a custom colour becomes 1
getEnvColor(doc, defaultColors, env, customColors) ==
    LET mapped == IF env \in DOMAIN doc.EnvColors THEN doc.EnvColors[env] ELSE env
        known == mapped \in DOMAIN defaultColors \/ mapped \in DOMAIN customColors
    IN  envToColor(IF known THEN mapped ELSE 1, customColors, defaultColors)

ColorEnvs == {-1, 0, 1, 16, 17, 100, 231, 232, 255, 256, 999}

CustomIds == {1, 16, 100, 232}

\* the custom colour given to every id that has one
CustomColor == RGBA(255, 128, 64, 255)

EnvMappings == {EmptyMap, MapPut(EmptyMap, 100, 1), MapPut(EmptyMap, 17, 17)}

InitColor ==
    /\ impl = "render"
    /\ \E env \in ColorEnvs : data = <<env>>
    /\ \E ids \in SUBSET CustomIds : \E mapping \in EnvMappings :
           m = [EnvColors |-> mapping, CustomEnvColors |-> [i \in ids |-> CustomColor]]
    /\ r = NewBinaryReader
    /\ pc \in {"envToColor", "getEnvColor"}
    /\ ret = [m |-> Nil, err |-> NoErr]
    /\ SingleInvocation

Call_envToColor ==
    /\ impl = "render" /\ pc = "envToColor"
    /\ pc' = "colour of id"
    /\ ret' = [ret EXCEPT !.m =
                  envToColor(data[1], m.CustomEnvColors, defaultEnvironmentColors)]
    /\ UNCHANGED <<process, impl, data, r, m>>

Call_getEnvColor ==
    /\ impl = "render" /\ pc = "getEnvColor"
    /\ pc' = "colour of room"
    /\ ret' = [ret EXCEPT !.m =
                  getEnvColor(m, defaultEnvironmentColors, data[1], m.CustomEnvColors)]
    /\ UNCHANGED <<process, impl, data, r, m>>

NextColor ==
    \/ Call_envToColor
    \/ Call_getEnvColor

SpecColor == InitColor /\ [][NextColor]_vars

Coloured == impl = "render" /\ pc \in {"colour of id", "colour of room"}

HasCustomColor == data[1] \in DOMAIN m.CustomEnvColors

\* an id outside the 16 defaults that has a custom colour gets it from
\* envToColor, also where the 256-colour palette has a colour for the id
CustomOverridesComputedPalette ==
    (impl = "render" /\ pc = "colour of id" /\ HasCustomColor
        /\ data[1] \notin DOMAIN defaultEnvironmentColors) =>
            ret.m = m.CustomEnvColors[data[1]]

\* C28: a room whose environment id has a custom colour is drawn in that
\* colour, also when the id is one of the default palette's ids 1..16.
C28_CustomColorOverridesDefault ==
    (Coloured /\ HasCustomColor) => ret.m = m.CustomEnvColors[data[1]]

\* environment 1 has a custom colour and comes out in the default red
C28_Witness ==
    /\ Coloured /\ HasCustomColor
    /\ data = <<1>>
    /\ ret.m = RGBA(128, 0, 0, 255)

----------------------------------------------------------------------------
(* SpecLoop: the labels loop of ParseMap, `for i := int32(0); i < cnt; i++`, *)
(* one iteration at a time.  `data` is a labels section: a count up to      *)
(* LoopIters and a cut of one area's labels; `m` holds the loop's cnt and   *)
(* i, and idle, the number of iterations so far that read no byte.          *)

LoopIters == 3

\* one area's group of labels: the number of labels, the area id, one label
LabelGroupBytes == I32(1) \o I32(1) \o LabelBytes(2, FALSE, FALSE)

LoopInputs ==
    {I32(n) \o rest : n \in 0..LoopIters, rest \in Truncations(LabelGroupBytes)}

InitLoop ==
    /\ impl = "loop"
    /\ data \in LoopInputs
    /\ r = NewBinaryReader
    /\ m = [cnt |-> 0, i |-> 0, idle |-> 0]
    /\ pc = "labels"
    /\ ret = [m |-> Nil, err |-> NoErr]
    /\ SingleInvocation

\* if cnt, err := qt.ReadInt32(); err == nil { for i := int32(0); i < cnt; ...
ParseMap_labels_count ==
    /\ impl = "loop" /\ pc = "labels"
    /\ \E c \in {ReadInt32(r)} :
           /\ r' = c.r
           /\ m' = [m EXCEPT !.cnt = c.v]
           /\ pc' = IF ~c.ok THEN "skipToRoomsHeuristic"
                    ELSE IF 0 < c.v THEN "labels loop" ELSE "rooms"
    /\ UNCHANGED <<process, impl, data, ret>>

\* one iteration of the loop over the areas' label groups: the body, whose
\* read errors are discarded, then i++ and the test i < cnt
ParseMap_labels_iteration ==
    /\ impl = "loop" /\ pc = "labels loop"
    /\ \E x \in {Run(r, LegacyLabelsBody).r} :
           /\ r' = x
           /\ m' = [m EXCEPT !.i = @ + 1,
                             !.idle = IF x.off = r.off THEN @ + 1 ELSE @]
    /\ pc' = IF m.i + 1 < m.cnt THEN "labels loop" ELSE "rooms"
    /\ UNCHANGED <<process, impl, data, ret>>

NextLoop ==
    \/ ParseMap_labels_count
    \/ ParseMap_labels_iteration

SpecLoop == InitLoop /\ [][NextLoop]_vars

\* the loop runs cnt times at most
LabelsLoopIsBounded == impl = "loop" => m.i <= m.cnt /\ m.cnt <= LoopIters

\* C30: every iteration of a decode loop consumes at least one byte or ends
\* the loop, so that a count larger than the rest of the input causes no
\* iteration that consumes nothing.
C30_IterationConsumesOrEndsLoop ==
    [][(impl = "loop" /\ pc = "labels loop") =>
           (r'.off > r.off \/ pc' # "labels loop")]_vars

\* the count was 3 and the input held one group: the second iteration read
\* nothing and the loop went on to a third
C30_Witness ==
    /\ impl = "loop" /\ pc = "labels loop"
    /\ data = I32(3) \o LabelGroupBytes
    /\ m.cnt = 3 /\ m.i = 2 /\ m.idle = 1
    /\ r.off = Len(data)

====
